---- MODULE Spec2Model ----
(***************************************************************************)
(* Model of the radiolink protocol engine.                                 *)
(*                                                                         *)
(*   RadioProtocol (src/src/radio_protocol.rs): the engine that main.rs    *)
(*   runs from radio_protocol_task.  It owns last_acked, waiting_for_ack   *)
(*   and next_packet_id and talks to the radio and UART adapters through   *)
(*   four single-producer/single-consumer queues.                          *)
(*                                                                         *)
(*   Queue (src/src/queue.rs): the byte queue with XON/XOFF flow control.  *)
(*                                                                         *)
(*   Uart (src/src/uart.rs): the UART adapter with its two byte queues.    *)
(*                                                                         *)
(*   Packet and Radio (src/src/radio.rs): the frame codec and the radio    *)
(*   adapter with its half-duplex state machine.                           *)
(*                                                                         *)
(* The specifications:                                                     *)
(*   Spec          two engines A and B joined by a lossy FIFO channel      *)
(*   SpecEngine    one engine whose radio_rx is fed arbitrary frames       *)
(*   SpecRetry     one engine, run at every tick, never acknowledged       *)
(*   SpecDue       the retransmit-due test on a 32-bit tick counter        *)
(*   SpecLockstep  two engines with aligned ticks on a half-duplex medium  *)
(*   SpecQuiesce   the two engines of SpecLockstep, fairly scheduled       *)
(*   SpecQueue     two byte queues with flow control                       *)
(*   SpecUart      the UART adapter between the main loop and the UARTE    *)
(*   SpecCodec     Packet::write and Packet::read on the adapter's buffer  *)
(*   SpecRadio     the radio adapter between the main loop and the RADIO   *)
(***************************************************************************)
EXTENDS Integers, Sequences, FiniteSets, TLC

VARIABLES
    now,              \* main.rs Shared.now: the millisecond tick counter
    last_acked,       \* RadioProtocol.last_acked      : Option<u8>
    waiting_for_ack,  \* RadioProtocol.waiting_for_ack : Option<WaitingForAck>
    next_packet_id,   \* RadioProtocol.next_packet_id  : u8
    radio_rx,         \* queue of received frames   (radio adapter -> engine)
    radio_tx,         \* queue of frames to send    (engine -> radio adapter)
    uart_rx,          \* queue of bytes from the UART (UART adapter -> engine)
    uart_tx,          \* queue of bytes to the UART   (engine -> UART adapter)
    fed,              \* history: number of bytes the UART has received so far
    delivered,        \* history: every byte ever enqueued into uart_tx
    given_up,         \* history: the bytes of every DATA given up
    sends,            \* history: transmissions of the outstanding DATA
    heard,            \* history: number of frames put into radio_rx
    owed,             \* history: id of a duplicate DATA whose reply was refused
    ev,               \* history: what the last engine tick did
    wnow,             \* the tick counter as a u32, for the retransmit-due test
    wsince,           \* WaitingForAck.since as a u32
    waged,            \* history: ticks counted since wsince was set
    wdue,             \* the outcome of the last retransmit-due test
    phase,            \* lockstep: what comes next within the current tick
    aired,            \* lockstep history: every frame transmitted, and its fate
    dropped,          \* lockstep history: number of frames lost to noise
    queue,            \* Queue.queue   : the data bytes of each byte queue
    control,          \* Queue.control : Option<u8>, the control byte slot
    xoff_on,          \* Queue.xoff_on : bool
    injected,         \* history: the control bytes put into each control slot
    returned,         \* history: the control bytes each queue's dequeue returned
    taken,            \* history: the data bytes dequeued from queue "b"
    stored,           \* history: number of bytes enqueued into queue "b"
    qop,              \* history: the last flow_control call and the state before
    uart,             \* struct Uart, its UART0 registers and what they did
    codec,            \* a frame, the buffer Packet::write made of it, the result
    radio             \* struct Radio, its RADIO registers and what they did

\* The variables of the engine specifications.
engine_vars ==
    <<now, last_acked, waiting_for_ack, next_packet_id, radio_rx, radio_tx,
      uart_rx, uart_tx, fed, delivered, given_up, sends, heard, owed, ev>>

\* The variables of the retransmit-due test at full width.
due_vars == <<wnow, wsince, waged, wdue>>

\* The variables of the two engines ticking in lockstep.
lock_vars == <<phase, aired, dropped>>

\* The variables of the byte queues with flow control.
queue_vars == <<queue, control, xoff_on, injected, returned, taken, stored, qop>>

\* The variables of the UART adapter, the frame codec and the radio adapter.
adapter_vars == <<uart, codec, radio>>

\* The variables the engine specifications leave alone.
others == <<due_vars, lock_vars, queue_vars, adapter_vars>>

vars == <<engine_vars, others>>

\* The history variables that only some specifications keep.
logs == <<delivered, given_up, sends>>

(***************************************************************************)
(* Bounds of the model.                                                    *)
(***************************************************************************)
FirstTick == 86
MaxNow == 89
MaxFeed == 2
MaxFeedBack == 1
RadioQueueCap == 1
UartQueueCap == 3
MaxTxCount == 3
MaxLog == 3
RetryMaxNow == 310
MaxHeard == 1
MaxFeedDelay == 1
WrapLead == 3
MaxLockFeed == 3
MaxDropped == 1
MaxAged == 95
MaxStored == 1
MaxTaken == 2
MaxInjected == 2
MaxUartWrite == 3
MaxArrived == 5
RxFifoDepth == 2
MaxRadioNow == 90
MaxRadioRx == 2
MaxRadioFeed == 2
BurstLen == 24

(***************************************************************************)
(* Program constants.                                                      *)
(***************************************************************************)
MAX_PAYLOAD_SIZE == 27
RETRY_BASE == 2
JITTER_MUL == 7
JITTER_MOD == 89
RETRY_CAP == 16
ID_MODULUS == 256
HALF_WORD == 65536
XON == 17
XOFF == 19
QUEUE_SIZE == 1024
MIN_PAYLOAD_SIZE == 1
S0 == 0
LEN == 1
S1 == 2
PAYLOAD == 3
TAG_ACK == 65
TAG_DATA == 68
TAG_BOTH == 88
LENGTH_FIELD_MAX == 31
BYTE_MODULUS == 256

Engines == {"A", "B"}
Peer(e) == IF e = "A" THEN "B" ELSE "A"

\* Option<T>: None is the empty sequence, Some(x) the one-element sequence.
None == << >>
Some(x) == << x >>
IsSome(o) == o # None
Get(o) == o[1]

Min(a, b) == IF a < b THEN a ELSE b

(***************************************************************************)
(* Frames: enum Packet { Ack(u8), Data(PacketData), Both(u8, PacketData) } *)
(* PacketData is its id and its data[..data_len].                          *)
(***************************************************************************)
PacketData(id, data) == [id |-> id, data |-> data]
Ack(id) == [kind |-> "Ack", ack |-> Some(id), pd |-> None]
Data(pd) == [kind |-> "Data", ack |-> None, pd |-> Some(pd)]
Both(id, pd) == [kind |-> "Both", ack |-> Some(id), pd |-> Some(pd)]

\* The id a frame acknowledges, if any.
AcksId(f, id) == f.ack = Some(id)

WaitingForAck(pd, tx_count, since) ==
    [packet_data |-> pd, tx_count |-> tx_count, since |-> since]

\* Pend::plus as it would be if it kept its left operand.
PendPlusLeft(a, b) == a

(***************************************************************************)
(* enum Pend and Pend::plus, written as the match table of the source.     *)
(***************************************************************************)
PendPlus(a, b) ==
    CASE a = "Nothing" /\ b = "Nothing" -> "Nothing"
      [] a = "Nothing" /\ b = "Radio" -> "Radio"
      [] a = "Nothing" /\ b = "Uart" -> "Uart"
      [] a = "Nothing" /\ b = "Both" -> "Both"
      [] a = "Radio" /\ b = "Nothing" -> "Radio"
      [] a = "Radio" /\ b = "Radio" -> "Radio"
      [] a = "Radio" /\ b = "Uart" -> "Both"
      [] a = "Radio" /\ b = "Both" -> "Both"
      [] a = "Uart" /\ b = "Nothing" -> "Uart"
      [] a = "Uart" /\ b = "Radio" -> "Both"
      [] a = "Uart" /\ b = "Uart" -> "Uart"
      [] a = "Uart" /\ b = "Both" -> "Both"
      [] a = "Both" /\ b = "Nothing" -> "Both"
      [] a = "Both" /\ b = "Radio" -> "Both"
      [] a = "Both" /\ b = "Uart" -> "Both"
      [] a = "Both" /\ b = "Both" -> "Both"

\* radio_protocol_task: the interrupts pended for the hint that run returned.
PendedBy(hint) ==
    CASE hint = "Nothing" -> {}
      [] hint = "Radio" -> {"RADIO"}
      [] hint = "Uart" -> {"UART0"}
      [] hint = "Both" -> {"UART0", "RADIO"}

(***************************************************************************)
(* The engine as seen by one call of run: its three fields, the queues it  *)
(* produces into or consumes from, and what the call has done so far       *)
(* (sent, refused, put, lost, drained, cleared, due), which only the       *)
(* history variable ev keeps.                                              *)
(***************************************************************************)
Self(e) ==
    [ last_acked |-> last_acked[e],
      waiting_for_ack |-> waiting_for_ack[e],
      next_packet_id |-> next_packet_id[e],
      radio_tx |-> radio_tx[e],
      uart_rx |-> uart_rx[e],
      uart_tx |-> uart_tx[e],
      pend |-> "Nothing",
      sent |-> << >>,
      refused |-> << >>,
      put |-> << >>,
      lost |-> << >>,
      drained |-> << >>,
      cleared |-> None,
      due |-> FALSE ]

\* heapless Consumer::ready: the queue holds an element.
Ready(q) == Len(q) > 0

\* RadioProtocol::get_packet_id: the id to use, and the wrapping increment.
GetPacketId(s) ==
    [id |-> s.next_packet_id,
     self |-> [s EXCEPT !.next_packet_id = (s.next_packet_id + 1) % ID_MODULUS]]

\* from_consumer as it would be if it took one byte for each DATA.
FromConsumerOneByte(id, q) ==
    [pd |-> PacketData(id, SubSeq(q, 1, 1)), rest |-> SubSeq(q, 2, Len(q))]

\* PacketData::from_queue / from_consumer: dequeue up to MAX_PAYLOAD_SIZE bytes.
FromConsumer(id, q) ==
    LET n == Min(Len(q), MAX_PAYLOAD_SIZE)
    IN  [pd |-> PacketData(id, SubSeq(q, 1, n)), rest |-> SubSeq(q, n + 1, Len(q))]

\* self.radio_tx.enqueue(packet): Err when the queue is full.
RadioTxFull(s) == Len(s.radio_tx) >= RadioQueueCap
RadioTxEnqueue(s, packet) ==
    IF RadioTxFull(s)
    THEN [s EXCEPT !.refused = Append(@, packet)]
    ELSE [s EXCEPT !.radio_tx = Append(@, packet), !.sent = Append(@, packet)]

\* The loop of handle_rx_data over the payload: each byte is enqueued into
\* uart_tx, and a byte that finds the queue full is logged and dropped.
UartTxEnqueueAll(s, data) ==
    LET room == UartQueueCap - Len(s.uart_tx)
        n == Min(Len(data), room)
    IN  [s EXCEPT !.uart_tx = @ \o SubSeq(data, 1, n),
                  !.put = @ \o SubSeq(data, 1, n),
                  !.lost = @ \o SubSeq(data, n + 1, Len(data))]

\* The retransmit-due test as it would be without the jitter term.
RetransmitDueNoJitter(t, since) == t - since > RETRY_BASE

\* The retransmit-due test of handle_waiting_for_ack.
RetransmitDue(t, since) == t - since > RETRY_BASE + ((t * JITTER_MUL) % JITTER_MOD)

\* handle_rx_data as it would be if the reply that retransmits the
\* outstanding DATA did not restart the retransmit timer.
HandleRxDataKeepsSince(s, t, rx_packet_data) ==
    LET fresh == s.last_acked # Some(rx_packet_data.id)
        s1 == IF fresh THEN UartTxEnqueueAll(s, rx_packet_data.data) ELSE s
        rx == IF fresh THEN "Uart" ELSE "Nothing"
        g == GetPacketId(s1)
        d == FromConsumer(g.id, g.self.uart_rx)
        s2 == IF IsSome(s1.waiting_for_ack)
              THEN [s1 EXCEPT !.waiting_for_ack =
                        Some([Get(@) EXCEPT !.tx_count = @ + 1])]
              ELSE IF Ready(s1.uart_rx)
              THEN [g.self EXCEPT !.uart_rx = d.rest,
                                  !.drained = @ \o d.pd.data,
                                  !.waiting_for_ack = Some(WaitingForAck(d.pd, 1, t))]
              ELSE s1
        tx_packet == IF IsSome(s1.waiting_for_ack)
                     THEN Both(rx_packet_data.id, Get(s1.waiting_for_ack).packet_data)
                     ELSE IF Ready(s1.uart_rx)
                     THEN Both(rx_packet_data.id, d.pd)
                     ELSE Ack(rx_packet_data.id)
        s3 == RadioTxEnqueue(s2, tx_packet)
        s4 == IF RadioTxFull(s2)
              THEN s3
              ELSE [s3 EXCEPT !.last_acked = Some(rx_packet_data.id)]
    IN  [s4 EXCEPT !.pend = PendPlus(@, PendPlus(rx, "Radio"))]

\* handle_rx_data as it would be if it always replied with a pure ACK and
\* left the transmit state alone.
HandleRxDataAckOnly(s, t, rx_packet_data) ==
    LET fresh == s.last_acked # Some(rx_packet_data.id)
        s1 == IF fresh THEN UartTxEnqueueAll(s, rx_packet_data.data) ELSE s
        rx == IF fresh THEN "Uart" ELSE "Nothing"
        s3 == RadioTxEnqueue(s1, Ack(rx_packet_data.id))
        s4 == IF RadioTxFull(s1)
              THEN s3
              ELSE [s3 EXCEPT !.last_acked = Some(rx_packet_data.id)]
    IN  [s4 EXCEPT !.pend = PendPlus(@, PendPlus(rx, "Radio"))]

(***************************************************************************)
(* RadioProtocol::handle_rx_data.  The payload is delivered unless its id  *)
(* equals last_acked; then the reply is chosen (BOTH with the outstanding  *)
(* DATA, BOTH with a new DATA, or ACK) and enqueued; last_acked is set     *)
(* only when that enqueue succeeds.                                        *)
(***************************************************************************)
HandleRxData(s, t, rx_packet_data) ==
    LET fresh == s.last_acked # Some(rx_packet_data.id)
        s1 == IF fresh THEN UartTxEnqueueAll(s, rx_packet_data.data) ELSE s
        rx == IF fresh THEN "Uart" ELSE "Nothing"
        g == GetPacketId(s1)
        d == FromConsumer(g.id, g.self.uart_rx)
        s2 == IF IsSome(s1.waiting_for_ack)
              THEN [s1 EXCEPT !.waiting_for_ack =
                        Some([Get(@) EXCEPT !.since = t, !.tx_count = @ + 1])]
              ELSE IF Ready(s1.uart_rx)
              THEN [g.self EXCEPT !.uart_rx = d.rest,
                                  !.drained = @ \o d.pd.data,
                                  !.waiting_for_ack = Some(WaitingForAck(d.pd, 1, t))]
              ELSE s1
        tx_packet == IF IsSome(s1.waiting_for_ack)
                     THEN Both(rx_packet_data.id, Get(s1.waiting_for_ack).packet_data)
                     ELSE IF Ready(s1.uart_rx)
                     THEN Both(rx_packet_data.id, d.pd)
                     ELSE Ack(rx_packet_data.id)
        s3 == RadioTxEnqueue(s2, tx_packet)
        s4 == IF RadioTxFull(s2)
              THEN s3
              ELSE [s3 EXCEPT !.last_acked = Some(rx_packet_data.id)]
    IN  [s4 EXCEPT !.pend = PendPlus(@, PendPlus(rx, "Radio"))]

\* handle_rx_ack as it would be if every ACK were answered with an ACK.
HandleRxAckEchoes(s, rx_id) ==
    RadioTxEnqueue(IF IsSome(s.waiting_for_ack)
                      /\ Get(s.waiting_for_ack).packet_data.id = rx_id
                   THEN [s EXCEPT !.waiting_for_ack = None,
                                  !.cleared = Some(Get(s.waiting_for_ack).packet_data)]
                   ELSE s,
                   Ack(rx_id))

\* handle_rx_ack as it would be without the comparison of the ids.
HandleRxAckAnyId(s, rx_id) ==
    IF IsSome(s.waiting_for_ack)
    THEN [s EXCEPT !.waiting_for_ack = None,
                   !.cleared = Some(Get(s.waiting_for_ack).packet_data)]
    ELSE s

(***************************************************************************)
(* RadioProtocol::handle_rx_ack: a matching ACK clears the outstanding     *)
(* DATA; any other ACK is logged and ignored.                              *)
(***************************************************************************)
HandleRxAck(s, rx_id) ==
    IF IsSome(s.waiting_for_ack) /\ Get(s.waiting_for_ack).packet_data.id = rx_id
    THEN [s EXCEPT !.waiting_for_ack = None,
                   !.cleared = Some(Get(s.waiting_for_ack).packet_data)]
    ELSE s

(***************************************************************************)
(* RadioProtocol::handle_tx_data: originate a DATA from uart_rx.  The id   *)
(* is taken and the bytes are dequeued before the enqueue is tried.        *)
(***************************************************************************)
HandleTxData(s, t) ==
    IF IsSome(s.waiting_for_ack)
    THEN s
    ELSE LET g == GetPacketId(s)
             d == FromConsumer(g.id, g.self.uart_rx)
             s1 == [g.self EXCEPT !.uart_rx = d.rest, !.drained = @ \o d.pd.data]
             s2 == RadioTxEnqueue(s1, Data(d.pd))
         IN  IF RadioTxFull(s1)
             THEN [s2 EXCEPT !.pend = PendPlus(@, "Radio")]
             ELSE [s2 EXCEPT !.waiting_for_ack = Some(WaitingForAck(d.pd, 1, t)),
                             !.pend = PendPlus(@, "Radio")]

(***************************************************************************)
(* RadioProtocol::handle_waiting_for_ack: the retransmit timer.            *)
(***************************************************************************)
HandleWaitingForAck(s, t) ==
    LET state == Get(s.waiting_for_ack)
        packet == IF IsSome(s.last_acked)
                  THEN Both(Get(s.last_acked), state.packet_data)
                  ELSE Data(state.packet_data)
        s1 == [s EXCEPT !.waiting_for_ack =
                   Some([state EXCEPT !.tx_count = @ + 1, !.since = t]),
                        !.due = TRUE]
        s2 == RadioTxEnqueue(s1, packet)
    IN  IF RetransmitDue(t, state.since)
        THEN IF state.tx_count <= RETRY_CAP
             THEN IF RadioTxFull(s1)
                  THEN s2
                  ELSE [s2 EXCEPT !.pend = PendPlus(@, "Radio")]
             ELSE [s EXCEPT !.waiting_for_ack = None, !.due = TRUE]
        ELSE s

(***************************************************************************)
(* RadioProtocol::run, as a function of the engine, the tick and the       *)
(* result of radio_rx.dequeue().                                           *)
(***************************************************************************)
\* The receive half of run as it would be if the DATA part of a BOTH frame
\* were handled before its ACK part.
RxHalfDataFirst(s, t, rx) ==
    IF rx = None THEN s
    ELSE CASE Get(rx).kind = "Data" -> HandleRxData(s, t, Get(Get(rx).pd))
           [] Get(rx).kind = "Ack" -> HandleRxAck(s, Get(Get(rx).ack))
           [] Get(rx).kind = "Both" ->
                HandleRxAck(HandleRxData(s, t, Get(Get(rx).pd)), Get(Get(rx).ack))

RxHalf(s, t, rx) ==
    IF rx = None THEN s
    ELSE CASE Get(rx).kind = "Data" -> HandleRxData(s, t, Get(Get(rx).pd))
           [] Get(rx).kind = "Ack" -> HandleRxAck(s, Get(Get(rx).ack))
           [] Get(rx).kind = "Both" ->
                \* ack MUST be handled first
                HandleRxData(HandleRxAck(s, Get(Get(rx).ack)), t, Get(Get(rx).pd))

\* The transmit half of run as it would be if queued bytes were sent as a
\* new DATA whether or not a DATA is outstanding.
TxHalfOriginatesAnyway(s, t) ==
    IF Ready(s.uart_rx) THEN HandleTxData([s EXCEPT !.waiting_for_ack = None], t)
    ELSE IF IsSome(s.waiting_for_ack) THEN HandleWaitingForAck(s, t)
    ELSE s

TxHalf(s, t) ==
    IF IsSome(s.waiting_for_ack) THEN HandleWaitingForAck(s, t)
    ELSE IF Ready(s.uart_rx) THEN HandleTxData(s, t)
    ELSE s

RunResult(s, t, rx) == TxHalf(RxHalf(s, t, rx), t)

(***************************************************************************)
(* History kept of one tick.                                               *)
(***************************************************************************)
Core(s) ==
    [ last_acked |-> s.last_acked,
      waiting_for_ack |-> s.waiting_for_ack,
      next_packet_id |-> s.next_packet_id,
      radio_tx |-> s.radio_tx,
      uart_rx |-> s.uart_rx,
      uart_tx |-> s.uart_tx ]

\* The engine with core c at the start of a run.
Resume(c) ==
    [ last_acked |-> c.last_acked,
      waiting_for_ack |-> c.waiting_for_ack,
      next_packet_id |-> c.next_packet_id,
      radio_tx |-> c.radio_tx,
      uart_rx |-> c.uart_rx,
      uart_tx |-> c.uart_tx,
      pend |-> "Nothing",
      sent |-> << >>,
      refused |-> << >>,
      put |-> << >>,
      lost |-> << >>,
      drained |-> << >>,
      cleared |-> None,
      due |-> FALSE ]

\* The engine after the ACK part of the received frame, before its DATA part.
AfterAck(s, rx) ==
    IF rx # None /\ Get(rx).kind \in {"Ack", "Both"}
    THEN HandleRxAck(s, Get(Get(rx).ack))
    ELSE s

NoCore ==
    [ last_acked |-> None, waiting_for_ack |-> None, next_packet_id |-> 0,
      radio_tx |-> << >>, uart_rx |-> << >>, uart_tx |-> << >> ]

NoEv ==
    [ e |-> "none", t |-> 0, rx |-> None, pre |-> NoCore, mid |-> NoCore,
      post |-> NoCore, sent |-> << >>, refused |-> << >>, put |-> << >>,
      lost |-> << >>, drained |-> << >>, cleared |-> None, due |-> FALSE,
      pend |-> "Nothing", pended |-> {} ]

EvOf(e, t, rx, s0, s2) ==
    [ e |-> e, t |-> t, rx |-> rx, pre |-> Core(s0), mid |-> Core(AfterAck(s0, rx)),
      post |-> Core(s2), sent |-> s2.sent, refused |-> s2.refused, put |-> s2.put,
      lost |-> s2.lost, drained |-> s2.drained, cleared |-> s2.cleared,
      due |-> s2.due, pend |-> s2.pend, pended |-> PendedBy(s2.pend) ]

\* The bytes of the DATA that tick v gave up: the timer was due, no ACK had
\* cleared the DATA and none is outstanding afterwards.
GivenUpBy(v) ==
    IF v.due /\ IsSome(v.mid.waiting_for_ack) /\ v.post.waiting_for_ack = None
    THEN {Get(v.mid.waiting_for_ack).packet_data.data[i] :
              i \in 1..Len(Get(v.mid.waiting_for_ack).packet_data.data)}
    ELSE {}

\* Transmissions of the outstanding DATA: own counts the frames carrying it
\* that handle_tx_data and handle_waiting_for_ack enqueued, and the frame
\* that originated it; reply the BOTH frames that handle_rx_data enqueued
\* to retransmit it.
NoSends == [own |-> 0, reply |-> 0]

SendsAfter(c, v) ==
    LET n == Cardinality({i \in 1..Len(v.sent) : IsSome(v.sent[i].pd)})
        replied == v.rx # None /\ IsSome(Get(v.rx).pd)
    IN  IF v.post.waiting_for_ack = None THEN NoSends
        ELSE IF v.drained # << >> THEN [own |-> n, reply |-> 0]
        ELSE IF replied THEN [c EXCEPT !.reply = @ + n]
        ELSE [c EXCEPT !.own = @ + n]

\* The received frame carries a DATA whose id equals last_acked.
IsDuplicate(s, rx) ==
    rx # None /\ IsSome(Get(rx).pd) /\ s.last_acked = Some(Get(Get(rx).pd).id)

\* The acknowledgement the engine still owes for a duplicate DATA: owed from
\* the tick whose reply was refused until a frame acknowledging that id is
\* enqueued or another DATA is received.
OwedAfter(o, s0, s2, rx) ==
    IF rx # None /\ IsSome(Get(rx).pd)
    THEN IF /\ IsDuplicate(s0, rx)
            /\ s2.sent = << >>
            /\ \A i \in 1..Len(s2.radio_tx) :
                  ~AcksId(s2.radio_tx[i], Get(Get(rx).pd).id)
         THEN Some(Get(Get(rx).pd).id)
         ELSE None
    ELSE IF IsSome(o) /\ \E i \in 1..Len(s2.sent) : AcksId(s2.sent[i], Get(o))
    THEN None
    ELSE o

(***************************************************************************)
(* u32 arithmetic.  A u32 is kept as its two 16-bit halves, hi and lo.     *)
(***************************************************************************)
U32(hi, lo) == [hi |-> hi, lo |-> lo]

\* a < b, unsigned.
Less32(a, b) == a.hi < b.hi \/ (a.hi = b.hi /\ a.lo < b.lo)

\* a.wrapping_sub(b)
WrappingSub32(a, b) ==
    IF a.lo >= b.lo
    THEN U32((a.hi + HALF_WORD - b.hi) % HALF_WORD, a.lo - b.lo)
    ELSE U32((a.hi + HALF_WORD - b.hi - 1) % HALF_WORD, a.lo + HALF_WORD - b.lo)

\* a.wrapping_mul(k), for a small k.
WrappingMul32(a, k) ==
    U32((a.hi * k + (a.lo * k) \div HALF_WORD) % HALF_WORD, (a.lo * k) % HALF_WORD)

\* a % m, for a small m.
Mod32(a, m) == (a.hi * (HALF_WORD % m) + a.lo) % m

\* a.wrapping_add(1): the tick counter advances.
Inc32(a) ==
    IF a.lo + 1 < HALF_WORD THEN U32(a.hi, a.lo + 1)
    ELSE U32((a.hi + 1) % HALF_WORD, 0)

\* a > n, for a small n.
Greater32(a, n) == a.hi > 0 \/ a.lo > n

\* 2 + ((now.wrapping_mul(7)) % 89)
RetryInterval32(t) == RETRY_BASE + Mod32(WrappingMul32(t, JITTER_MUL), JITTER_MOD)

\* The test `now - state.since > 2 + ((now.wrapping_mul(7)) % 89)` of
\* handle_waiting_for_ack.  The operator - on u32 panics on overflow in a
\* build with overflow checks (the default of the dev profile) and wraps in
\* a build without (the default of the release profile).
RetransmitDue32(t, since, overflow_checks) ==
    IF overflow_checks /\ Less32(t, since) THEN "panic"
    ELSE IF Greater32(WrappingSub32(t, since), RetryInterval32(t)) THEN "due"
    ELSE "notdue"

NoDue == [out |-> "none", aged |-> 0, t |-> U32(0, 0)]

\* No retransmit-due test at full width takes place.
DueIdle ==
    /\ wnow = U32(0, 0)
    /\ wsince = U32(0, 0)
    /\ waged = 0
    /\ wdue = NoDue

(***************************************************************************)
(* Uart (src/src/uart.rs): the UART adapter.  The record holds the fields  *)
(* of struct Uart, the UART0 registers it reads (events_txdrdy, and rxd    *)
(* with events_rxdrdy raised while rxd holds a byte) and what the          *)
(* transmitter is shifting out.                                            *)
(***************************************************************************)
UartNew ==
    [ tx_state |-> "Idle", tx_queue |-> << >>, rx_queue |-> << >>,
      events_txdrdy |-> FALSE, rxd |-> << >>, shifting |-> None,
      txd |-> << >>, overrun |-> FALSE, aborted |-> FALSE,
      written |-> 0, arrived |-> 0 ]

\* uart0.txd.write: the byte goes to the transmitter.  overrun records that
\* the byte written before had not been sent yet.
WriteTxd(u, c) ==
    [u EXCEPT !.txd = Append(@, c),
              !.overrun = @ \/ IsSome(u.shifting),
              !.shifting = Some(c)]

\* Uart::tick, lines 43-74: the transmit state machine.
UartTickTx(u) ==
    IF u.tx_state = "Idle"
    THEN IF u.tx_queue # << >>
         THEN [WriteTxd(u, Head(u.tx_queue)) EXCEPT !.tx_queue = Tail(@),
                                                    !.tx_state = "Tx"]
         ELSE u
    ELSE IF u.events_txdrdy
         THEN IF u.tx_queue # << >>
              THEN [WriteTxd(u, Head(u.tx_queue)) EXCEPT !.tx_queue = Tail(@)]
              ELSE [u EXCEPT !.tx_state = "Idle"]
         ELSE u

\* Uart::tick, lines 77-83: while events_rxdrdy is set, clear it, read rxd
\* and enqueue the byte; unwrap panics when rx_queue is full.
RECURSIVE UartTickRx(_)
UartTickRx(u) ==
    IF u.rxd = << >> \/ u.aborted THEN u
    ELSE IF Len(u.rx_queue) >= UartQueueCap
    THEN [u EXCEPT !.rxd = Tail(@), !.aborted = TRUE]
    ELSE UartTickRx([u EXCEPT !.rxd = Tail(@),
                              !.rx_queue = Append(@, Head(u.rxd))])

(***************************************************************************)
(* Packet::write and Packet::read (src/src/radio.rs).  A buffer is the     *)
(* sequence of its bytes; the byte at offset i of the source is element    *)
(* i + 1.  Radio.plaintext, the buffer both are called with, has           *)
(* MAX_PAYLOAD_SIZE bytes.  A slice that reaches beyond the buffer panics. *)
(***************************************************************************)
PlaintextLen == MAX_PAYLOAD_SIZE

ZeroBuffer == [i \in 1..PlaintextLen |-> 0]

\* target[at .. at + Len(data)].copy_from_slice(data)
CopyInto(target, at, data) ==
    [i \in 1..Len(target) |->
        IF i > at /\ i <= at + Len(data) THEN data[i - at] ELSE target[i]]

\* target[at] = byte
Put(target, at, byte) == [target EXCEPT ![at + 1] = byte]

Panicked == [ok |-> FALSE, bytes |-> << >>]
Written(bytes) == [ok |-> TRUE, bytes |-> bytes]

\* Packet::write
PacketWrite(f, target) ==
    IF f.kind = "Ack"
    THEN Written(Put(Put(Put(Put(target, S0, TAG_ACK), LEN, 1), S1, 0),
                     PAYLOAD, Get(f.ack)))
    ELSE IF f.kind = "Data"
    THEN LET pd == Get(f.pd)
             header == Put(Put(Put(Put(target, S0, TAG_DATA), LEN, Len(pd.data) + 1),
                               S1, 0), PAYLOAD, pd.id)
         IN  IF PAYLOAD + 1 + Len(pd.data) > Len(target)
             THEN Panicked
             ELSE Written(CopyInto(header, PAYLOAD + 1, pd.data))
    ELSE LET pd == Get(f.pd)
             header == Put(Put(Put(Put(Put(target, S0, TAG_BOTH), LEN, Len(pd.data) + 2),
                                   S1, 0), PAYLOAD, Get(f.ack)), PAYLOAD + 1, pd.id)
         IN  IF PAYLOAD + 2 + Len(pd.data) > Len(target)
             THEN Panicked
             ELSE Written(CopyInto(header, PAYLOAD + 2, pd.data))

Malformed == [out |-> "none", frame |-> Ack(0)]
ReadPanic == [out |-> "panic", frame |-> Ack(0)]
Decoded(f) == [out |-> "some", frame |-> f]

\* source[from .. from + n], as a sequence
Slice(source, from, n) == [i \in 1..n |-> source[from + i]]

\* Packet::read.  source[LEN] - 2 is a u8 subtraction: with overflow checks
\* it panics below zero, without them it wraps.
PacketRead(source, overflow_checks) ==
    LET len == source[LEN + 1]
        tag == source[S0 + 1]
    IN  IF len < MIN_PAYLOAD_SIZE \/ len > MAX_PAYLOAD_SIZE THEN Malformed
        ELSE IF tag = TAG_ACK THEN Decoded(Ack(source[PAYLOAD + 1]))
        ELSE IF tag = TAG_DATA
        THEN LET data_len == len - 1
             IN  IF data_len + PAYLOAD + 1 > Len(source)
                 THEN ReadPanic
                 ELSE Decoded(Data(PacketData(source[PAYLOAD + 1],
                                              Slice(source, PAYLOAD + 1, data_len))))
        ELSE IF tag = TAG_BOTH
        THEN LET data_len == (len - 2) % BYTE_MODULUS
             IN  IF len < 2 /\ overflow_checks THEN ReadPanic
                 ELSE IF data_len > MAX_PAYLOAD_SIZE THEN ReadPanic
                 ELSE IF PAYLOAD + 2 + data_len > Len(source) THEN ReadPanic
                 ELSE Decoded(Both(source[PAYLOAD + 1],
                                   PacketData(source[PAYLOAD + 2],
                                              Slice(source, PAYLOAD + 2, data_len))))
        ELSE Malformed

(***************************************************************************)
(* Radio (src/src/radio.rs): the radio adapter with its protocol state.    *)
(* The record holds the fields of struct Radio, the two byte queues that   *)
(* tick is called with, the RADIO and CCM registers that tick reads, the   *)
(* state of the peripheral (hw) and the frame it is receiving (incoming).  *)
(***************************************************************************)
RxInitial == [tag |-> "Initial", id |-> 0]
NeedsAck(id) == [tag |-> "NeedsAck", id |-> id]
Acked(id) == [tag |-> "Acked", id |-> id]

TxIdle == [tag |-> "Idle", packet_data |-> PacketData(0, << >>), tx_count |-> 0,
           since |-> 0]
Sent(pd, tx_count, since) ==
    [tag |-> "Sent", packet_data |-> pd, tx_count |-> tx_count, since |-> since]

\* What assembly and reception may change: the protocol state and the queues.
RadioCore(r) ==
    [ rx_state |-> r.rx_state, tx_state |-> r.tx_state,
      next_packet_id |-> r.next_packet_id, tx_queue |-> r.tx_queue,
      rx_queue |-> r.rx_queue ]

NoLast ==
    [ op |-> "none", radio_state |-> "Uninitialized", events_address |-> FALSE,
      events_end |-> FALSE, crc_ok |-> FALSE, mic_ok |-> FALSE,
      core |-> RadioCore([rx_state |-> RxInitial, tx_state |-> TxIdle,
                          next_packet_id |-> 0, tx_queue |-> << >>,
                          rx_queue |-> << >>]),
      plaintext |-> ZeroBuffer, called |-> FALSE, frame |-> None ]

\* Radio::new
RadioNew ==
    [ radio_state |-> "Uninitialized", rx_state |-> RxInitial, tx_state |-> TxIdle,
      next_packet_id |-> 0, plaintext |-> ZeroBuffer, ccm_counter |-> 0,
      tx_queue |-> << >>, rx_queue |-> << >>,
      events_address |-> FALSE, events_end |-> FALSE, events_disabled |-> FALSE,
      crc_ok |-> FALSE, mic_ok |-> FALSE, hw |-> "disabled", incoming |-> ZeroBuffer,
      now |-> FirstTick, aborted |-> FALSE,
      assembled |-> << >>, handed |-> << >>, fed |-> 0, received |-> 0,
      last |-> NoLast ]

\* self.ccm_config[16] += 1 on a u8: past 255 the build with overflow checks
\* panics and the build without them wraps.
BumpCounter(r, overflow_checks) ==
    IF r.ccm_counter = BYTE_MODULUS - 1 /\ overflow_checks
    THEN [r EXCEPT !.aborted = TRUE]
    ELSE [r EXCEPT !.ccm_counter = (@ + 1) % BYTE_MODULUS]

\* Radio::handle_rx_ack
RadioHandleRxAck(r, ack) ==
    IF r.tx_state.tag = "Sent" /\ r.tx_state.packet_data.id = ack
    THEN [r EXCEPT !.tx_state = TxIdle]
    ELSE r

\* Radio::handle_rx_data
RadioHandleRxData(r, packet_data) ==
    IF r.rx_state.tag = "Initial"
    THEN [r EXCEPT !.rx_queue = @ \o packet_data.data,
                   !.rx_state = NeedsAck(packet_data.id)]
    ELSE IF r.rx_state.tag = "Acked"
    THEN [r EXCEPT !.rx_queue = IF packet_data.id # r.rx_state.id
                                THEN @ \o packet_data.data ELSE @,
                   !.rx_state = NeedsAck(packet_data.id)]
    ELSE r

\* The retransmit-due test of Radio::assemble_packet.
RadioRetransmitDue(t, since) ==
    t - since > RETRY_BASE + ((t * JITTER_MUL) % JITTER_MOD)

\* PacketData::from_queue(self.get_packet_id(), tx_queue) and the state
\* after it.
RadioFromQueue(r) ==
    LET n == Min(Len(r.tx_queue), MAX_PAYLOAD_SIZE)
    IN  [ pd |-> PacketData(r.next_packet_id, SubSeq(r.tx_queue, 1, n)),
          self |-> [r EXCEPT !.next_packet_id = (@ + 1) % ID_MODULUS,
                             !.tx_queue = SubSeq(@, n + 1, Len(@))] ]

\* Radio::assemble_packet followed by the two assignments of tick, lines
\* 339-340: the frame to send, if any, and the adapter with the new
\* rx_state and tx_state.
RadioAssemblePacket(r, t) ==
    LET rx == r.rx_state
        tx == r.tx_state
        q == RadioFromQueue(r)
    IN  IF rx.tag = "NeedsAck" /\ tx.tag = "Sent"
        THEN [ packet |-> Some(Both(rx.id, tx.packet_data)),
               self |-> [r EXCEPT !.rx_state = Acked(rx.id),
                                  !.tx_state = Sent(tx.packet_data, tx.tx_count + 1, t)] ]
        ELSE IF tx.tag = "Sent"
        THEN IF RadioRetransmitDue(t, tx.since)
             THEN IF tx.tx_count <= RETRY_CAP
                  THEN [ packet |-> Some(IF rx.tag = "Acked"
                                         THEN Both(rx.id, tx.packet_data)
                                         ELSE Data(tx.packet_data)),
                         self |-> [r EXCEPT !.tx_state =
                                       Sent(tx.packet_data, tx.tx_count + 1, t)] ]
                  ELSE [packet |-> None, self |-> [r EXCEPT !.tx_state = TxIdle]]
             ELSE [packet |-> None, self |-> r]
        ELSE IF rx.tag = "NeedsAck"
        THEN IF r.tx_queue # << >>
             THEN [ packet |-> Some(Both(rx.id, q.pd)),
                    self |-> [q.self EXCEPT !.rx_state = Acked(rx.id),
                                            !.tx_state = Sent(q.pd, 1, t)] ]
             ELSE [ packet |-> Some(Ack(rx.id)),
                    self |-> [r EXCEPT !.rx_state = Acked(rx.id)] ]
        ELSE IF r.tx_queue # << >>
        THEN [ packet |-> Some(Data(q.pd)),
               self |-> [q.self EXCEPT !.tx_state = Sent(q.pd, 1, t)] ]
        ELSE [packet |-> None, self |-> r]

\* tick in RxIdle assembles as it would without the test of events_address.
AssemblesAlways(address) == TRUE

\* tick in RxIdle assembles unless an address event is pending.
Assembles(address) == ~address

\* The frame is taken as good whatever the MIC status.
CrcOnly(crc, mic) == crc

\* crcstatus.is_crcok() && micstatus.bits()
CrcAndMicOk(crc, mic) == crc /\ mic

\* What tick records of the adapter it found.
LastOf(r, called, frame) ==
    [ op |-> "tick", radio_state |-> r.radio_state,
      events_address |-> r.events_address, events_end |-> r.events_end,
      crc_ok |-> r.crc_ok, mic_ok |-> r.mic_ok, core |-> RadioCore(r),
      plaintext |-> r.plaintext, called |-> called, frame |-> frame ]

\* tick, RadioState::RxIdle
TickRxIdle(r) ==
    IF ~Assembles(r.events_address)
    THEN [r EXCEPT !.events_address = FALSE, !.radio_state = "Rx",
                   !.last = LastOf(r, FALSE, None)]
    ELSE LET a == RadioAssemblePacket(r, r.now)
             w == PacketWrite(Get(a.packet), r.plaintext)
         IN  IF a.packet = None
             THEN [a.self EXCEPT !.last = LastOf(r, TRUE, None)]
             ELSE IF ~w.ok
             THEN [a.self EXCEPT !.aborted = TRUE,
                                 !.assembled = Append(@, Get(a.packet)),
                                 !.last = LastOf(r, TRUE, a.packet)]
             ELSE [a.self EXCEPT !.plaintext = w.bytes,
                                 !.hw = "disabling",
                                 !.radio_state = "RxDisable",
                                 !.assembled = Append(@, Get(a.packet)),
                                 !.last = LastOf(r, TRUE, a.packet)]

\* tick, RadioState::Rx
TickRx(r, overflow_checks) ==
    IF ~r.events_end THEN [r EXCEPT !.last = LastOf(r, FALSE, None)]
    ELSE LET r1 == [r EXCEPT !.events_end = FALSE]
             p == PacketRead(r.plaintext, overflow_checks)
             f == p.frame
             r2 == IF ~CrcAndMicOk(r.crc_ok, r.mic_ok) \/ p.out = "none" THEN r1
                   ELSE IF p.out = "panic" THEN [r1 EXCEPT !.aborted = TRUE]
                   ELSE IF f.kind = "Ack"
                   THEN BumpCounter(RadioHandleRxAck(r1, Get(f.ack)), overflow_checks)
                   ELSE IF f.kind = "Data" THEN RadioHandleRxData(r1, Get(f.pd))
                   ELSE RadioHandleRxData(RadioHandleRxAck(r1, Get(f.ack)), Get(f.pd))
         IN  IF r2.aborted THEN [r2 EXCEPT !.last = LastOf(r, FALSE, None)]
             ELSE [r2 EXCEPT !.hw = "rx", !.radio_state = "RxIdle",
                             !.last = LastOf(r, FALSE, None)]

\* tick, RadioState::RxDisable
TickRxDisable(r) ==
    IF r.events_disabled
    THEN [r EXCEPT !.events_disabled = FALSE, !.hw = "tx", !.radio_state = "Tx",
                   !.last = LastOf(r, FALSE, None)]
    ELSE [r EXCEPT !.last = LastOf(r, FALSE, None)]

\* tick, RadioState::Tx
TickTx(r, overflow_checks) ==
    IF r.events_end
    THEN LET r1 == [r EXCEPT !.events_address = FALSE, !.events_end = FALSE,
                             !.hw = "disabling"]
             p == PacketRead(r.plaintext, overflow_checks)
             r2 == IF p.out = "panic" THEN [r1 EXCEPT !.aborted = TRUE]
                   ELSE IF p.out = "some" /\ p.frame.kind = "Ack"
                   THEN BumpCounter(r1, overflow_checks)
                   ELSE r1
         IN  IF r2.aborted THEN [r2 EXCEPT !.last = LastOf(r, FALSE, None)]
             ELSE [r2 EXCEPT !.radio_state = "TxDisable",
                             !.last = LastOf(r, FALSE, None)]
    ELSE [r EXCEPT !.last = LastOf(r, FALSE, None)]

\* tick, RadioState::TxDisable
TickTxDisable(r) ==
    IF r.events_disabled
    THEN [r EXCEPT !.events_disabled = FALSE, !.hw = "rx", !.radio_state = "RxIdle",
                   !.last = LastOf(r, FALSE, None)]
    ELSE [r EXCEPT !.last = LastOf(r, FALSE, None)]

\* Radio::tick
RadioTickResult(r, overflow_checks) ==
    CASE r.radio_state = "Uninitialized" -> [r EXCEPT !.last = LastOf(r, FALSE, None)]
      [] r.radio_state = "RxIdle" -> TickRxIdle(r)
      [] r.radio_state = "Rx" -> TickRx(r, overflow_checks)
      [] r.radio_state = "RxDisable" -> TickRxDisable(r)
      [] r.radio_state = "Tx" -> TickTx(r, overflow_checks)
      [] r.radio_state = "TxDisable" -> TickTxDisable(r)

\* The packet codec before anything was done with it.
CodecIdle ==
    [op |-> "none", frame |-> Ack(0), buffer |-> Panicked, result |-> Malformed]

AdapterIdle == uart = UartNew /\ codec = CodecIdle /\ radio = RadioNew

(***************************************************************************)
(* Queue (src/src/queue.rs): a byte queue with a one-byte control slot.    *)
(* Two queues "a" and "b" are kept; each may call flow_control with the    *)
(* other as its target.                                                    *)
(***************************************************************************)
Queues == {"a", "b"}
Other(q) == IF q = "a" THEN "b" ELSE "a"

\* heapless::spsc::Queue<u8, QUEUE_SIZE> holds QUEUE_SIZE - 1 elements.
Capacity == QUEUE_SIZE - 1

\* The i-th data byte enqueued into a queue; never XON or XOFF.
DataByte(i) == 20 + (i % 200)

\* A queue's data after n bytes have been enqueued and none dequeued.
Filled(n) == [i \in 1..n |-> DataByte(i)]

NoOp == [op |-> "none", self |-> "a", len |-> 0, xoff_on |-> FALSE,
         control |-> [q \in Queues |-> None]]

\* Queue::new for both queues.
QueueIdle ==
    /\ queue = [q \in Queues |-> << >>]
    /\ control = [q \in Queues |-> None]
    /\ xoff_on = [q \in Queues |-> FALSE]
    /\ injected = [q \in Queues |-> << >>]
    /\ returned = [q \in Queues |-> << >>]
    /\ taken = << >>
    /\ stored = 0
    /\ qop = NoOp

\* Queue::len
QueueLen(q) == (IF IsSome(control[q]) THEN 1 ELSE 0) + Len(queue[q])

\* The first test of flow_control as it would be with >= for >.
AtOrAboveHigh(n) == n >= QUEUE_SIZE \div 2

\* flow_control: self.queue.len() > QUEUE_SIZE / 2
AboveHigh(n) == n > QUEUE_SIZE \div 2

\* flow_control: self.queue.len() < QUEUE_SIZE / 4
BelowLow(n) == n < QUEUE_SIZE \div 4

\* flow_control as it would be if XON were requested without looking at
\* xoff_on.
FlowControlByteNoFlag(q) ==
    IF AboveHigh(Len(queue[q])) /\ ~xoff_on[q] THEN Some(XOFF)
    ELSE IF BelowLow(Len(queue[q])) THEN Some(XON)
    ELSE None

\* The control byte that flow_control of queue q puts into its target.
FlowControlByte(q) ==
    IF AboveHigh(Len(queue[q])) /\ ~xoff_on[q] THEN Some(XOFF)
    ELSE IF xoff_on[q] /\ BelowLow(Len(queue[q])) THEN Some(XON)
    ELSE None

(***************************************************************************)
(* Init: both engines as RadioProtocol::new leaves them, all queues empty. *)
(* Nothing happens before tick t0, where the behaviour starts.             *)
(***************************************************************************)
InitAt(t0) ==
    /\ now = t0
    /\ last_acked = [e \in Engines |-> None]
    /\ waiting_for_ack = [e \in Engines |-> None]
    /\ next_packet_id = [e \in Engines |-> 0]
    /\ radio_rx = [e \in Engines |-> << >>]
    /\ radio_tx = [e \in Engines |-> << >>]
    /\ uart_rx = [e \in Engines |-> << >>]
    /\ uart_tx = [e \in Engines |-> << >>]
    /\ fed = [e \in Engines |-> 0]
    /\ delivered = [e \in Engines |-> << >>]
    /\ given_up = [e \in Engines |-> {}]
    /\ sends = [e \in Engines |-> NoSends]
    /\ heard = 0
    /\ owed = [e \in Engines |-> None]
    /\ ev = NoEv

\* The engines do not tick in lockstep.
LockIdle ==
    /\ phase = "none"
    /\ aired = << >>
    /\ dropped = 0

Init == InitAt(FirstTick) /\ DueIdle /\ LockIdle /\ QueueIdle /\ AdapterIdle

(***************************************************************************)
(* radio_protocol_task: one call of RadioProtocol::run(now) by engine e.   *)
(***************************************************************************)
RunAt(e, t) ==
    LET rx == IF Len(radio_rx[e]) > 0 THEN Some(Head(radio_rx[e])) ELSE None
        s0 == Self(e)
        s2 == RunResult(s0, t, rx)
    IN  /\ radio_rx' = [radio_rx EXCEPT ![e] = IF rx = None THEN @ ELSE Tail(@)]
        /\ last_acked' = [last_acked EXCEPT ![e] = s2.last_acked]
        /\ waiting_for_ack' = [waiting_for_ack EXCEPT ![e] = s2.waiting_for_ack]
        /\ next_packet_id' = [next_packet_id EXCEPT ![e] = s2.next_packet_id]
        /\ radio_tx' = [radio_tx EXCEPT ![e] = s2.radio_tx]
        /\ uart_rx' = [uart_rx EXCEPT ![e] = s2.uart_rx]
        /\ uart_tx' = [uart_tx EXCEPT ![e] = s2.uart_tx]
        /\ owed' = [owed EXCEPT ![e] = OwedAfter(@, s0, s2, rx)]
        /\ ev' = EvOf(e, t, rx, s0, s2)
        /\ UNCHANGED <<fed, heard, due_vars, queue_vars, adapter_vars>>

\* A run between two ticks, pended by the UART or the radio interrupt.
RunStep(e) == RunAt(e, now) /\ UNCHANGED <<now, lock_vars>>

\* The model follows an outstanding DATA up to k transmissions.
TxCountWithin(e, k) ==
    IsSome(waiting_for_ack[e]) => Get(waiting_for_ack[e]).tx_count <= k

\* In Spec the history of the bytes put into uart_tx is kept, up to MaxLog.
Run(e) ==
    /\ RunStep(e)
    /\ delivered' = [delivered EXCEPT ![e] = @ \o ev'.put]
    /\ given_up' = [given_up EXCEPT ![e] = @ \cup GivenUpBy(ev')]
    /\ UNCHANGED sends
    /\ Len(delivered'[e]) <= MaxLog
    /\ TxCountWithin(e, MaxTxCount)'

(***************************************************************************)
(* The surroundings of the engine.                                         *)
(***************************************************************************)
\* The byte the UART of e receives as its n-th: all bytes are distinct.
ByteOf(e, n) == IF e = "A" THEN n ELSE 100 + n

\* UART adapter: a received byte is enqueued into uart_rx.
FeedLimit(e) == IF e = "A" THEN MaxFeed ELSE MaxFeedBack

Feed(e) ==
    /\ fed[e] < FeedLimit(e)
    /\ Len(uart_rx[e]) < UartQueueCap
    /\ uart_rx' = [uart_rx EXCEPT ![e] = Append(@, ByteOf(e, fed[e] + 1))]
    /\ fed' = [fed EXCEPT ![e] = @ + 1]
    /\ ev' = NoEv
    /\ UNCHANGED <<now, last_acked, waiting_for_ack, next_packet_id, radio_rx,
                   radio_tx, uart_tx, logs, heard, owed, others>>

\* UART adapter: the oldest byte of uart_tx is written to the UART.
UartSend(e) ==
    /\ Len(uart_tx[e]) > 0
    /\ uart_tx' = [uart_tx EXCEPT ![e] = Tail(@)]
    /\ ev' = NoEv
    /\ UNCHANGED <<now, last_acked, waiting_for_ack, next_packet_id, radio_rx,
                   radio_tx, uart_rx, fed, logs, heard, owed, others>>

\* Radio adapters and the air: the oldest frame of radio_tx is transmitted
\* and reaches the peer's radio_rx, in order and at most once.
Transmit(e) ==
    /\ Len(radio_tx[e]) > 0
    /\ Len(radio_rx[Peer(e)]) < RadioQueueCap
    /\ radio_rx' = [radio_rx EXCEPT ![Peer(e)] = Append(@, Head(radio_tx[e]))]
    /\ radio_tx' = [radio_tx EXCEPT ![e] = Tail(@)]
    /\ ev' = NoEv
    /\ UNCHANGED <<now, last_acked, waiting_for_ack, next_packet_id, uart_rx,
                   uart_tx, fed, logs, heard, owed, others>>

\* Radio adapter: the oldest frame of radio_tx is transmitted and no engine
\* receives it (collision, CRC failure, nobody listening).
RadioSend(e) ==
    /\ Len(radio_tx[e]) > 0
    /\ radio_tx' = [radio_tx EXCEPT ![e] = Tail(@)]
    /\ ev' = NoEv
    /\ UNCHANGED <<now, last_acked, waiting_for_ack, next_packet_id, radio_rx,
                   uart_rx, uart_tx, fed, logs, heard, owed, others>>

\* rtc0_task: the tick counter advances by one, up to tick k.
TickTo(k) ==
    /\ now < k
    /\ now' = now + 1
    /\ ev' = NoEv
    /\ UNCHANGED <<last_acked, waiting_for_ack, next_packet_id, radio_rx, radio_tx,
                   uart_rx, uart_tx, fed, logs, heard, owed, others>>

Tick == TickTo(MaxNow)

Next ==
    \/ \E e \in Engines : Run(e)
    \/ \E e \in Engines : Feed(e)
    \/ \E e \in Engines : UartSend(e)
    \/ \E e \in Engines : Transmit(e)
    \/ \E e \in Engines : RadioSend(e)
    \/ Tick

Spec == Init /\ [][Next]_vars

(***************************************************************************)
(* SpecEngine: engine A alone.  Its radio adapter puts any frame of        *)
(* Frames into radio_rx: what a peer, in whatever state, may have sent.    *)
(***************************************************************************)
RemoteIds == {0, 1}
RemoteData == PacketData(0, <<200>>)
Frames ==
    {Ack(a) : a \in RemoteIds}
    \cup {Data([RemoteData EXCEPT !.id = i]) : i \in RemoteIds}
    \cup {Both(a, [RemoteData EXCEPT !.id = i]) : a \in RemoteIds, i \in RemoteIds}

\* Radio adapter: a received frame is enqueued into radio_rx.
Receive(f) ==
    /\ Len(radio_rx["A"]) < RadioQueueCap
    /\ radio_rx' = [radio_rx EXCEPT !["A"] = Append(@, f)]
    /\ ev' = NoEv
    /\ UNCHANGED <<now, last_acked, waiting_for_ack, next_packet_id, radio_tx,
                   uart_rx, uart_tx, fed, logs, heard, owed, others>>

EngineRun ==
    /\ RunStep("A")
    /\ TxCountWithin("A", MaxTxCount)'
    /\ UNCHANGED logs

EngineNext ==
    \/ EngineRun
    \/ \E f \in Frames : Receive(f)
    \/ Feed("A")
    \/ UartSend("A")
    \/ RadioSend("A")
    \/ Tick

SpecEngine == Init /\ [][EngineNext]_vars

(***************************************************************************)
(* SpecRetry: engine A beside a peer that never acknowledges.  rtc0_task   *)
(* pends the protocol task at every tick, so the engine runs at each tick  *)
(* and, pended by the UART or the radio, between ticks.  The peer sends    *)
(* its own DATA, up to MaxHeard frames, and every frame of A is lost.      *)
(***************************************************************************)
RetryLogs(e) ==
    /\ sends' = [sends EXCEPT ![e] = SendsAfter(@, ev')]
    /\ given_up' = [given_up EXCEPT ![e] = @ \cup GivenUpBy(ev')]
    /\ UNCHANGED delivered

\* rtc0_task: the tick counter advances and the protocol task runs.
RetryTick ==
    /\ now < RetryMaxNow
    /\ now' = now + 1
    /\ RunAt("A", now + 1)
    /\ RetryLogs("A")
    /\ UNCHANGED lock_vars

\* uart_task and radio_task pend the protocol task after an interrupt.
RetryRun == ev.e = "none" /\ RunStep("A") /\ RetryLogs("A")

RetryReceive ==
    /\ heard < MaxHeard
    /\ Len(radio_rx["A"]) < RadioQueueCap
    /\ radio_rx' = [radio_rx EXCEPT !["A"] = Append(@, Data(RemoteData))]
    /\ heard' = heard + 1
    /\ ev' = NoEv
    /\ UNCHANGED <<now, last_acked, waiting_for_ack, next_packet_id, radio_tx,
                   uart_rx, uart_tx, fed, logs, owed, others>>

\* The UART receives its bytes during the first ticks.
RetryFeed == now <= FirstTick + MaxFeedDelay /\ Feed("A")

RetryNext ==
    \/ RetryTick
    \/ RetryRun
    \/ RetryReceive
    \/ RetryFeed
    \/ RadioSend("A")

SpecRetry == Init /\ [][RetryNext]_vars

(***************************************************************************)
(* SpecDue: the retransmit timer of one outstanding DATA with the tick     *)
(* counter at its full width.  The DATA is sent at tick wsince, a little   *)
(* before the counter wraps or before now * 7 wraps; the counter advances  *)
(* and handle_waiting_for_ack tests the timer, in either build.            *)
(***************************************************************************)
\* The ticks at which the DATA is first sent: before 2^32, before 2^32 / 7
\* and before 2^16.
StartTicks ==
    {U32(HALF_WORD - 1, HALF_WORD - k) : k \in 1..WrapLead}
    \cup {U32(HALF_WORD \div JITTER_MUL, (2 * HALF_WORD) \div JITTER_MUL - k) :
              k \in 1..WrapLead}
    \cup {U32(0, HALF_WORD - k) : k \in 1..WrapLead}

DueInit ==
    /\ InitAt(FirstTick)
    /\ LockIdle
    /\ QueueIdle
    /\ AdapterIdle
    /\ wnow \in StartTicks
    /\ wsince = wnow
    /\ waged = 0
    /\ wdue = NoDue

\* rtc0_task: the tick counter advances.
DueTick ==
    /\ waged < MaxAged
    /\ wdue.out # "panic"
    /\ wnow' = Inc32(wnow)
    /\ waged' = waged + 1
    /\ wdue' = NoDue
    /\ UNCHANGED <<wsince, engine_vars, lock_vars, queue_vars,
                   adapter_vars>>

\* handle_waiting_for_ack: the timer of the DATA sent at wsince is tested.
DueTest(overflow_checks) ==
    /\ wdue' = [out |-> RetransmitDue32(wnow, wsince, overflow_checks),
                aged |-> waged, t |-> wnow]
    /\ UNCHANGED <<wnow, wsince, waged, engine_vars, lock_vars, queue_vars,
                   adapter_vars>>

DueNext ==
    \/ DueTick
    \/ \E overflow_checks \in BOOLEAN : DueTest(overflow_checks)

SpecDue == DueInit /\ [][DueNext]_vars

(***************************************************************************)
(* SpecLockstep: two engines whose tick counters are aligned.  In every    *)
(* tick A runs, B runs, and then the radios transmit the oldest frame of   *)
(* each radio_tx on a half-duplex medium: two frames transmitted in the    *)
(* same tick collide and are both lost, a frame transmitted alone reaches  *)
(* the peer unless noise loses it.  The UARTs receive their bytes during   *)
(* the first ticks, and the clock is followed while there is work.         *)
(***************************************************************************)
LockInit ==
    /\ InitAt(FirstTick)
    /\ DueIdle
    /\ QueueIdle
    /\ AdapterIdle
    /\ phase = "A"
    /\ aired = << >>
    /\ dropped = 0

LockFeedLimit(e) == IF e = "A" THEN MaxLockFeed ELSE MaxFeedBack

LockFeed(e) ==
    /\ phase = "A"
    /\ now <= FirstTick + MaxFeedDelay
    /\ fed[e] < LockFeedLimit(e)
    /\ Len(uart_rx[e]) < UartQueueCap
    /\ uart_rx' = [uart_rx EXCEPT ![e] = Append(@, ByteOf(e, fed[e] + 1))]
    /\ fed' = [fed EXCEPT ![e] = @ + 1]
    /\ ev' = NoEv
    /\ UNCHANGED <<now, last_acked, waiting_for_ack, next_packet_id, radio_rx,
                   radio_tx, uart_tx, logs, heard, owed, others>>

LockRun(e) ==
    /\ phase = e
    /\ RunAt(e, now)
    /\ delivered' = [delivered EXCEPT ![e] = @ \o ev'.put]
    /\ given_up' = [given_up EXCEPT ![e] = @ \cup GivenUpBy(ev')]
    /\ sends' = [sends EXCEPT ![e] = SendsAfter(@, ev')]
    /\ phase' = IF e = "A" THEN "B" ELSE "air"
    /\ UNCHANGED <<now, aired, dropped>>

\* The engines whose radio has a frame to transmit in this tick.
OnAir == {e \in Engines : radio_tx[e] # << >>}

\* What is recorded of the frames transmitted in this tick.
AirLog(fate) ==
    LET entry(e) == IF e \in OnAir
                    THEN << [from |-> e, frame |-> Head(radio_tx[e]),
                             t |-> now, fate |-> fate] >>
                    ELSE << >>
    IN  entry("A") \o entry("B")

\* The radios transmit; a frame transmitted alone is received by the peer.
LockAir ==
    LET fate == IF Cardinality(OnAir) = 2 THEN "collided" ELSE "heard"
    IN  /\ phase = "air"
        /\ radio_tx' = [e \in Engines |->
                           IF e \in OnAir THEN Tail(radio_tx[e]) ELSE radio_tx[e]]
        /\ radio_rx' = [e \in Engines |->
                           IF fate = "heard" /\ Peer(e) \in OnAir
                           THEN Append(radio_rx[e], Head(radio_tx[Peer(e)]))
                           ELSE radio_rx[e]]
        /\ aired' = aired \o AirLog(fate)
        /\ heard' = heard + (IF fate = "heard" THEN Cardinality(OnAir) ELSE 0)
        /\ phase' = "tick"
        /\ ev' = NoEv
        /\ UNCHANGED <<now, last_acked, waiting_for_ack, next_packet_id, uart_rx,
                       uart_tx, fed, logs, owed, dropped, due_vars, queue_vars,
                   adapter_vars>>

\* The one frame transmitted in this tick is lost to noise.
LockDrop ==
    /\ phase = "air"
    /\ Cardinality(OnAir) = 1
    /\ dropped < MaxDropped
    /\ radio_tx' = [e \in Engines |->
                       IF e \in OnAir THEN Tail(radio_tx[e]) ELSE radio_tx[e]]
    /\ aired' = aired \o AirLog("lost")
    /\ dropped' = dropped + 1
    /\ phase' = "tick"
    /\ ev' = NoEv
    /\ UNCHANGED <<now, last_acked, waiting_for_ack, next_packet_id, radio_rx,
                   uart_rx, uart_tx, fed, logs, heard, owed, due_vars, queue_vars,
                   adapter_vars>>

\* Some engine has something to do, or the UART may still receive a byte.
Busy ==
    \/ now < FirstTick + MaxFeedDelay
    \/ \E e \in Engines :
          \/ IsSome(waiting_for_ack[e])
          \/ uart_rx[e] # << >>
          \/ radio_rx[e] # << >>
          \/ radio_tx[e] # << >>

\* rtc0_task on both devices: the tick counters advance together.
LockTick ==
    /\ phase = "tick"
    /\ now < RetryMaxNow
    /\ Busy
    /\ now' = now + 1
    /\ phase' = "A"
    /\ ev' = NoEv
    /\ UNCHANGED <<last_acked, waiting_for_ack, next_packet_id, radio_rx, radio_tx,
                   uart_rx, uart_tx, fed, logs, heard, owed, aired, dropped,
                   due_vars, queue_vars,
                   adapter_vars>>

LockNext ==
    \/ \E e \in Engines : LockFeed(e)
    \/ \E e \in Engines : LockRun(e)
    \/ LockAir
    \/ LockDrop
    \/ LockTick

SpecLockstep == LockInit /\ [][LockNext]_vars

(***************************************************************************)
(* SpecQuiesce: the two engines of SpecLockstep with the scheduling of     *)
(* main.rs: rtc0_task fires at every millisecond and pends the protocol    *)
(* task, and the radio sends what is queued, so a step that can be taken   *)
(* is taken.  Noise loses MaxDropped frames at most and the UARTs receive  *)
(* a bounded number of bytes.                                              *)
(***************************************************************************)
\* The clock is followed until every DATA that the bytes fed can make up has
\* been sent RETRY_CAP + 1 times at the longest retry interval.
QuiesceHorizon ==
    FirstTick + MaxFeedDelay
        + (MaxLockFeed + MaxFeedBack) * (RETRY_CAP + 1) * (RETRY_BASE + JITTER_MOD)

\* rtc0_task on both devices, while there is work.
QuiesceTick ==
    /\ phase = "tick"
    /\ now < QuiesceHorizon
    /\ Busy
    /\ now' = now + 1
    /\ phase' = "A"
    /\ ev' = NoEv
    /\ UNCHANGED <<last_acked, waiting_for_ack, next_packet_id, radio_rx, radio_tx,
                   uart_rx, uart_tx, fed, logs, heard, owed, aired, dropped,
                   due_vars, queue_vars, adapter_vars>>

QuiesceNext ==
    \/ \E e \in Engines : LockFeed(e)
    \/ \E e \in Engines : LockRun(e)
    \/ LockAir
    \/ LockDrop
    \/ QuiesceTick

SpecQuiesce == LockInit /\ [][QuiesceNext]_vars /\ WF_vars(QuiesceNext)

(***************************************************************************)
(* SpecQueue: the two byte queues under any order of enqueue, dequeue and  *)
(* flow_control calls.                                                     *)
(***************************************************************************)
\* Queue "b" starts empty or one enqueue short of being full.
StartLengths == {0, Capacity - MaxStored}

QueueInit ==
    /\ InitAt(FirstTick)
    /\ DueIdle
    /\ LockIdle
    /\ AdapterIdle
    /\ \E n \in StartLengths : queue = [q \in Queues |-> IF q = "b" THEN Filled(n) ELSE << >>]
    /\ control = [q \in Queues |-> None]
    /\ xoff_on = [q \in Queues |-> FALSE]
    /\ injected = [q \in Queues |-> << >>]
    /\ returned = [q \in Queues |-> << >>]
    /\ taken = << >>
    /\ stored = 0
    /\ qop = NoOp

\* The byte enqueued next: queue "b" is given the bytes DataByte(1),
\* DataByte(2), ... and queue "a" the same byte every time.
NextByte(q) ==
    IF q = "b" THEN DataByte(Len(queue[q]) + Len(taken) + 1) ELSE DataByte(0)

\* Queue::enqueue
Enqueue(q) ==
    /\ Len(queue[q]) < Capacity
    /\ q = "b" => stored < MaxStored
    /\ queue' = [queue EXCEPT ![q] = Append(@, NextByte(q))]
    /\ stored' = IF q = "b" THEN stored + 1 ELSE stored
    /\ qop' = NoOp
    /\ UNCHANGED <<control, xoff_on, injected, returned, taken,
                   engine_vars, due_vars, lock_vars,
                   adapter_vars>>

\* Queue::dequeue: the control byte if there is one, else the oldest data
\* byte.
Dequeue(q) ==
    /\ IF IsSome(control[q])
       THEN /\ control' = [control EXCEPT ![q] = None]
            /\ returned' = [returned EXCEPT ![q] = Append(@, Get(control[q]))]
            /\ UNCHANGED <<queue, taken>>
       ELSE /\ queue[q] # << >>
            /\ q = "b" => Len(taken) < MaxTaken
            /\ queue' = [queue EXCEPT ![q] = Tail(@)]
            /\ taken' = IF q = "b" THEN Append(taken, Head(queue[q])) ELSE taken
            /\ UNCHANGED <<control, returned>>
    /\ qop' = NoOp
    /\ UNCHANGED <<xoff_on, injected, stored, engine_vars, due_vars, lock_vars,
                   adapter_vars>>

\* Queue::flow_control called on queue q with the other queue as target.
FlowControl(q) ==
    LET c == FlowControlByte(q)
    IN  /\ IsSome(c) => Len(injected[Other(q)]) < MaxInjected
        /\ xoff_on' = [xoff_on EXCEPT ![q] =
                           IF c = Some(XOFF) THEN TRUE
                           ELSE IF c = Some(XON) THEN FALSE ELSE @]
        /\ control' = [control EXCEPT ![Other(q)] = IF IsSome(c) THEN c ELSE @]
        /\ injected' = [injected EXCEPT ![Other(q)] =
                           IF IsSome(c) THEN Append(@, Get(c)) ELSE @]
        /\ qop' = [op |-> "flow_control", self |-> q, len |-> Len(queue[q]),
                   xoff_on |-> xoff_on[q], control |-> control]
        /\ UNCHANGED <<queue, returned, taken, stored,
                       engine_vars, due_vars, lock_vars,
                   adapter_vars>>

QueueNext ==
    \/ \E q \in Queues : Enqueue(q)
    \/ \E q \in Queues : Dequeue(q)
    \/ \E q \in Queues : FlowControl(q)

SpecQueue == QueueInit /\ [][QueueNext]_vars

(***************************************************************************)
(* SpecUart: the UART adapter between the protocol task, which calls       *)
(* Uart::write and Uart::read, and the UART0 peripheral, which receives    *)
(* bytes and finishes sending them.                                        *)
(***************************************************************************)
UartInit ==
    /\ InitAt(FirstTick)
    /\ DueIdle
    /\ LockIdle
    /\ QueueIdle
    /\ AdapterIdle

UartStill == UNCHANGED <<engine_vars, due_vars, lock_vars, queue_vars, codec, radio>>

\* Uart::write
UartWrite ==
    /\ ~uart.aborted
    /\ uart.written < MaxUartWrite
    /\ Len(uart.tx_queue) < UartQueueCap
    /\ uart' = [uart EXCEPT !.tx_queue = Append(@, uart.written + 1),
                            !.written = @ + 1]
    /\ UartStill

\* Uart::read
UartRead ==
    /\ ~uart.aborted
    /\ uart.rx_queue # << >>
    /\ uart' = [uart EXCEPT !.rx_queue = Tail(@)]
    /\ UartStill

\* Uart::tick
UartTick ==
    /\ ~uart.aborted
    /\ uart' = UartTickRx(UartTickTx(uart))
    /\ UartStill

\* UART0: the transmitter has sent the byte, TXDRDY is raised.
UartTxDone ==
    /\ ~uart.aborted
    /\ IsSome(uart.shifting)
    /\ uart' = [uart EXCEPT !.shifting = None, !.events_txdrdy = TRUE]
    /\ UartStill

\* UART0: a byte has been received into rxd, RXDRDY is raised.
UartByteArrives ==
    /\ ~uart.aborted
    /\ uart.arrived < MaxArrived
    /\ Len(uart.rxd) < RxFifoDepth
    /\ uart' = [uart EXCEPT !.rxd = Append(@, 100 + uart.arrived + 1),
                            !.arrived = @ + 1]
    /\ UartStill

UartNext ==
    \/ UartWrite
    \/ UartRead
    \/ UartTick
    \/ UartTxDone
    \/ UartByteArrives

SpecUart == UartInit /\ [][UartNext]_vars

(***************************************************************************)
(* SpecCodec: Packet::write applied to every frame that assemble_packet    *)
(* can make, Packet::read applied to what was written, and Packet::read    *)
(* applied to the buffers a received frame can leave in plaintext.         *)
(***************************************************************************)
CodecIds == {0, 255}

\* The payload PacketData::from_queue makes of n queued bytes.
Payload(n) == [i \in 1..n |-> i]

CodecFrames ==
    {Ack(a) : a \in CodecIds}
    \cup {Data(PacketData(i, Payload(n))) : i \in CodecIds, n \in 0..MAX_PAYLOAD_SIZE}
    \cup {Both(a, PacketData(i, Payload(n))) :
              a \in CodecIds, i \in CodecIds, n \in 0..MAX_PAYLOAD_SIZE}

\* The tag bytes a received buffer may start with: the three kinds and
\* another byte.
ReceivedTags == {TAG_ACK, TAG_DATA, TAG_BOTH, 0}

\* plaintext after the reception of a frame with the tag and length field
\* given.
ReceivedBuffer(tag, len) ==
    [i \in 1..PlaintextLen |->
        IF i = S0 + 1 THEN tag ELSE IF i = LEN + 1 THEN len
        ELSE IF i = S1 + 1 THEN 0 ELSE i]

CodecInit ==
    /\ InitAt(FirstTick)
    /\ DueIdle
    /\ LockIdle
    /\ QueueIdle
    /\ AdapterIdle

CodecStill == UNCHANGED <<engine_vars, due_vars, lock_vars, queue_vars, uart, radio>>

\* packet.write(&mut self.plaintext)
CodecWrite(f) ==
    /\ codec.op = "none"
    /\ codec' = [op |-> "write", frame |-> f,
                 buffer |-> PacketWrite(f, ZeroBuffer), result |-> Malformed]
    /\ CodecStill

\* A frame is received into plaintext.
CodecReceive(tag, len) ==
    /\ codec.op = "none"
    /\ codec' = [op |-> "receive", frame |-> Ack(0),
                 buffer |-> Written(ReceivedBuffer(tag, len)), result |-> Malformed]
    /\ CodecStill

\* Packet::read(&self.plaintext)
CodecRead(overflow_checks) ==
    /\ codec.op \in {"write", "receive"}
    /\ codec.buffer.ok
    /\ codec' = [codec EXCEPT
                     !.op = IF @ = "write" THEN "reread" ELSE "read",
                     !.result = PacketRead(codec.buffer.bytes, overflow_checks)]
    /\ CodecStill

CodecNext ==
    \/ \E f \in CodecFrames : CodecWrite(f)
    \/ \E tag \in ReceivedTags, len \in 0..LENGTH_FIELD_MAX : CodecReceive(tag, len)
    \/ \E overflow_checks \in BOOLEAN : CodecRead(overflow_checks)

SpecCodec == CodecInit /\ [][CodecNext]_vars

(***************************************************************************)
(* SpecRadio: the radio adapter between the main loop, which calls tick    *)
(* and fills tx_queue, and the RADIO peripheral, which receives frames     *)
(* while listening, raises DISABLED after a disable task and sends the     *)
(* frame after a txen task.                                                *)
(***************************************************************************)
\* Radio::init: reception is enabled.
RadioInit ==
    /\ InitAt(FirstTick)
    /\ DueIdle
    /\ LockIdle
    /\ QueueIdle
    /\ uart = UartNew
    /\ codec = CodecIdle
    /\ radio = [RadioNew EXCEPT !.radio_state = "RxIdle", !.hw = "rx"]

RadioStill == UNCHANGED <<engine_vars, due_vars, lock_vars, queue_vars, uart, codec>>

\* The frames the peer may send.
RadioFrames ==
    {Ack(0), Ack(1), Data(PacketData(0, <<200>>)), Data(PacketData(1, <<201>>)),
     Both(0, PacketData(0, <<200>>))}

\* The main loop calls Radio::tick.
RadioTick ==
    /\ ~radio.aborted
    /\ \E overflow_checks \in BOOLEAN :
          radio' = RadioTickResult(radio, overflow_checks)
    /\ RadioStill

\* The millisecond counter advances.
RadioClock ==
    /\ ~radio.aborted
    /\ radio.now < MaxRadioNow
    /\ radio' = [radio EXCEPT !.now = @ + 1, !.last = NoLast]
    /\ RadioStill

\* The UART side puts n bytes into tx_queue.
RadioFeed(n) ==
    /\ ~radio.aborted
    /\ radio.fed < MaxRadioFeed
    /\ Len(radio.tx_queue) + n <= MAX_PAYLOAD_SIZE
    /\ radio' = [radio EXCEPT !.tx_queue = @ \o [i \in 1..n |-> i],
                              !.fed = @ + 1, !.last = NoLast]
    /\ RadioStill

\* RADIO: while listening, the address of a frame is received; the CCM
\* decrypts the frame into plaintext as it arrives.
RadioAddress(f) ==
    /\ ~radio.aborted
    /\ radio.hw = "rx"
    /\ radio.received < MaxRadioRx
    /\ radio' = [radio EXCEPT !.hw = "receiving", !.events_address = TRUE,
                              !.incoming = PacketWrite(f, ZeroBuffer).bytes,
                              !.received = @ + 1, !.last = NoLast]
    /\ RadioStill

\* RADIO: the frame has been received; CRC and MIC status are set.
RadioEnd(crc, mic) ==
    /\ ~radio.aborted
    /\ radio.hw = "receiving"
    /\ radio' = [radio EXCEPT !.hw = "stopped", !.events_end = TRUE,
                              !.crc_ok = crc, !.mic_ok = mic,
                              !.plaintext = radio.incoming, !.last = NoLast]
    /\ RadioStill

\* RADIO: the disable task has completed.
RadioDisabled ==
    /\ ~radio.aborted
    /\ radio.hw = "disabling"
    /\ radio' = [radio EXCEPT !.hw = "disabled", !.events_disabled = TRUE,
                              !.last = NoLast]
    /\ RadioStill

\* RADIO: after txen the frame made of plaintext has been sent.
RadioSent ==
    /\ ~radio.aborted
    /\ radio.hw = "tx"
    /\ radio' = [radio EXCEPT !.hw = "sent", !.events_address = TRUE,
                              !.events_end = TRUE,
                              !.handed = Append(@, radio.plaintext),
                              !.last = NoLast]
    /\ RadioStill

RadioNext ==
    \/ RadioTick
    \/ RadioClock
    \/ \E n \in {1, BurstLen} : RadioFeed(n)
    \/ \E f \in RadioFrames : RadioAddress(f)
    \/ \E crc, mic \in BOOLEAN : RadioEnd(crc, mic)
    \/ RadioDisabled
    \/ RadioSent

SpecRadio == RadioInit /\ [][RadioNext]_vars

(***************************************************************************)
(* C1.  At-most-once delivery: no byte, and so the payload of no           *)
(* originated DATA, is enqueued into the receiver's uart_tx twice (the     *)
(* bytes the UARTs receive are pairwise distinct, so a byte that occurs    *)
(* twice in the history of uart_tx was delivered twice).                   *)
(***************************************************************************)
C1_AtMostOnce ==
    \A e \in Engines : \A i, j \in 1..Len(delivered[e]) :
        i # j => delivered[e][i] # delivered[e][j]

\* The number of occurrences of byte b in the sequence q.
Count(b, q) == Cardinality({i \in 1..Len(q) : q[i] = b})

\* The last tick gave up on its outstanding DATA: the timer was due and the
\* DATA had been sent more often than the retry cap allows.
GaveUp ==
    /\ ev.due
    /\ IsSome(ev.pre.waiting_for_ack)
    /\ ev.post.waiting_for_ack = None
    /\ ev.cleared = None

(***************************************************************************)
(* C2.  When a matching ACK clears the outstanding DATA, every byte of     *)
(* that DATA has been enqueued into the peer's uart_tx exactly once; and a *)
(* byte dequeued from uart_rx is held as the outstanding DATA until a      *)
(* matching ACK or the give-up at the retry cap.                           *)
(***************************************************************************)
C2_AckedDeliveredOnce ==
    ev.e \in Engines =>
        /\ IsSome(ev.cleared) =>
              \A i \in 1..Len(Get(ev.cleared).data) :
                  Count(Get(ev.cleared).data[i], delivered[Peer(ev.e)]) = 1
        /\ ev.drained # << >> =>
              /\ IsSome(ev.post.waiting_for_ack)
              /\ Get(ev.post.waiting_for_ack).packet_data.data = ev.drained
        /\ (IsSome(ev.mid.waiting_for_ack) /\ ev.drained = << >>) =>
              \/ /\ IsSome(ev.post.waiting_for_ack)
                 /\ Get(ev.post.waiting_for_ack).packet_data
                       = Get(ev.mid.waiting_for_ack).packet_data
              \/ GaveUp /\ Get(ev.pre.waiting_for_ack).tx_count >= RETRY_CAP

\* The frames the last tick offered to radio_tx, enqueued or refused.
Offered == ev.sent \o ev.refused

(***************************************************************************)
(* C3.  A tick in which radio_tx refuses a frame leaves the transmit state *)
(* as it was after that tick's ACK processing: the outstanding DATA with   *)
(* its tx_count and since, next_packet_id and the bytes held in uart_rx.   *)
(***************************************************************************)
C3_RefusedKeepsTxState ==
    (ev.e \in Engines /\ ev.refused # << >>) =>
        /\ ev.post.waiting_for_ack = ev.mid.waiting_for_ack
        /\ ev.post.next_packet_id = ev.mid.next_packet_id
        /\ ev.post.uart_rx = ev.mid.uart_rx

(***************************************************************************)
(* C5.  At most one unacknowledged DATA: a tick dequeues bytes from        *)
(* uart_rx or takes a new id only if no DATA is outstanding after its ACK  *)
(* processing, and every frame it enqueues that carries a DATA carries the *)
(* one DATA outstanding after the tick.                                    *)
(***************************************************************************)
C5_OneOutstanding ==
    ev.e \in Engines =>
        /\ IsSome(ev.mid.waiting_for_ack) =>
              /\ ev.drained = << >>
              /\ ev.post.uart_rx = ev.pre.uart_rx
              /\ ev.post.next_packet_id = ev.pre.next_packet_id
              /\ IsSome(ev.post.waiting_for_ack) =>
                    Get(ev.post.waiting_for_ack).packet_data
                        = Get(ev.mid.waiting_for_ack).packet_data
        /\ \A i \in 1..Len(ev.sent) :
              IsSome(ev.sent[i].pd) =>
                  /\ IsSome(ev.post.waiting_for_ack)
                  /\ Get(ev.post.waiting_for_ack).packet_data = Get(ev.sent[i].pd)

\* A tick whose ACK cleared the outstanding DATA and which then sent the
\* next bytes of uart_rx as a new DATA.
C5_ClearedThenOriginated ==
    /\ ev.e = "A"
    /\ IsSome(ev.cleared)
    /\ ev.drained # << >>
    /\ IsSome(ev.post.waiting_for_ack)
    /\ Get(ev.post.waiting_for_ack).packet_data.id # Get(ev.cleared).id

(***************************************************************************)
(* C7.  ACK(a), alone or as the ACK part of BOTH, clears the outstanding   *)
(* DATA if and only if a DATA is outstanding and its id is a; any other    *)
(* ACK changes nothing of the engine, and a tick that receives a pure ACK  *)
(* puts nothing into uart_tx and keeps last_acked.                         *)
(***************************************************************************)
C7_AckClearsIffMatching ==
    (ev.e \in Engines /\ ev.rx # None /\ IsSome(Get(ev.rx).ack)) =>
        LET a == Get(Get(ev.rx).ack)
            w == ev.pre.waiting_for_ack
            matched == IsSome(w) /\ Get(w).packet_data.id = a
        IN  /\ matched <=> IsSome(ev.cleared)
            /\ matched =>
                  /\ ev.mid = [ev.pre EXCEPT !.waiting_for_ack = None]
                  /\ ev.cleared = Some(Get(w).packet_data)
            /\ ~matched => ev.mid = ev.pre
            /\ Get(ev.rx).kind = "Ack" =>
                  /\ ev.put = << >>
                  /\ ev.post.uart_tx = ev.pre.uart_tx
                  /\ ev.post.last_acked = ev.pre.last_acked

\* A tick that received an ACK for another id than the outstanding one.
C7_StaleAckIgnored ==
    /\ ev.e = "A"
    /\ ev.rx = Some(Ack(1))
    /\ IsSome(ev.pre.waiting_for_ack)
    /\ Get(ev.pre.waiting_for_ack).packet_data.id = 0
    /\ ev.post.waiting_for_ack = ev.pre.waiting_for_ack

(***************************************************************************)
(* C10.  One tick offers at most one frame to radio_tx, and so enqueues at *)
(* most one: a tick that replies to a received DATA neither retransmits    *)
(* on the timer nor originates a DATA in its transmit half.                *)
(***************************************************************************)
C10_OneFramePerTick ==
    ev.e \in Engines => Len(Offered) <= 1

\* A tick that replied to a received DATA while the outstanding DATA was
\* old enough for the retransmit timer.
C10_ReplyWhenTimerDue ==
    /\ ev.e = "A"
    /\ ev.rx # None /\ IsSome(Get(ev.rx).pd)
    /\ IsSome(ev.mid.waiting_for_ack)
    /\ RetransmitDue(ev.t, Get(ev.mid.waiting_for_ack).since)
    /\ Len(ev.sent) = 1

\* The number of times engine e has enqueued its outstanding DATA so far.
Transmissions(e) == sends[e].own + sends[e].reply

(***************************************************************************)
(* C4.  A DATA is enqueued for transmission at most RETRY_CAP times, the   *)
(* original, the timer-driven and the piggybacked transmissions counted    *)
(* together; and a tick whose timer is due when the DATA has been          *)
(* transmitted RETRY_CAP times leaves no DATA outstanding.                 *)
(***************************************************************************)
C4_AtMostRetryCap ==
    /\ \A e \in Engines : Transmissions(e) <= RETRY_CAP
    /\ (ev.e \in Engines /\ ev.due /\ IsSome(ev.post.waiting_for_ack)) =>
          Transmissions(ev.e) - Len(ev.sent) < RETRY_CAP

\* The set of the elements of the sequence q.
Range(q) == {q[i] : i \in 1..Len(q)}

\* The bytes of the DATA that engine e has outstanding.
InFlight(e) ==
    IF IsSome(waiting_for_ack[e])
    THEN Range(Get(waiting_for_ack[e]).packet_data.data)
    ELSE {}

(***************************************************************************)
(* C6.  The bytes put into the receiver's uart_tx are the bytes the sender *)
(* dequeued from its uart_rx, in the sender's order, less the bytes of the *)
(* DATA given up and of the DATA still outstanding (the n-th byte a UART   *)
(* receives is ByteOf(e, n), increasing in n).                             *)
(***************************************************************************)
C6_OrderKept ==
    \A e \in Engines :
        LET d == delivered[Peer(e)]
        IN  /\ \A i, j \in 1..Len(d) : i < j => d[i] < d[j]
            /\ \A n \in 1..fed[e] :
                  \/ ByteOf(e, n) \in Range(d)
                  \/ ByteOf(e, n) \in Range(uart_rx[e])
                  \/ ByteOf(e, n) \in InFlight(e)
                  \/ ByteOf(e, n) \in given_up[e]

(***************************************************************************)
(* C8.  A tick that receives a DATA whose id equals last_acked puts        *)
(* nothing into uart_tx, and the acknowledgement of that id is emitted at  *)
(* the next transmission opportunity: a tick that starts with room in      *)
(* radio_tx leaves no acknowledgement owed.                                *)
(***************************************************************************)
C8_DuplicateReAcked ==
    ev.e \in Engines =>
        /\ IsDuplicate(ev.pre, ev.rx) => ev.put = << >>
        /\ Len(ev.pre.radio_tx) < RadioQueueCap => owed[ev.e] = None

\* The last tick received BOTH(a, pd).
GotBoth == ev.e \in Engines /\ ev.rx # None /\ Get(ev.rx).kind = "Both"

\* The tick that receives ACK(a) alone in the state the last tick started in.
AckTick == RunResult(Resume(ev.pre), ev.t, Some(Ack(Get(Get(ev.rx).ack))))

\* The tick that then receives DATA(pd); the radio has sent what was queued.
DataTickAfter(c) == RunResult(Resume(c), ev.t, Some(Data(Get(Get(ev.rx).pd))))

\* The engine's own state, without its queue of frames to send.
Engine(c) ==
    [ last_acked |-> c.last_acked,
      waiting_for_ack |-> c.waiting_for_ack,
      next_packet_id |-> c.next_packet_id,
      uart_rx |-> c.uart_rx,
      uart_tx |-> c.uart_tx ]

(***************************************************************************)
(* C9 as stated.  From every engine state (here: with radio_tx empty, and  *)
(* emptied by the radio between the two ticks) receiving BOTH(a, pd)       *)
(* yields the same engine state, the same bytes in uart_tx and the same    *)
(* frames as receiving ACK(a) in one tick and DATA(pd) in the next.        *)
(***************************************************************************)
C9_BothAsAckThenData ==
    (GotBoth /\ ev.pre.radio_tx = << >>) =>
        LET r1 == AckTick
            r2 == DataTickAfter([Core(r1) EXCEPT !.radio_tx = << >>])
        IN  /\ Engine(r2) = Engine(ev.post)
            /\ r1.put \o r2.put = ev.put
            /\ r1.sent \o r2.sent = ev.sent

(***************************************************************************)
(* C9.  Receiving BOTH(a, pd) yields the same engine state, bytes in       *)
(* uart_tx and frames as receiving ACK(a) and then DATA(pd), whenever the  *)
(* tick that receives the ACK alone does nothing after the ACK processing; *)
(* and the ACK part is applied first: a DATA that the ACK part clears is   *)
(* not retransmitted by the reply to the DATA part.                        *)
(***************************************************************************)
C9_BothAsAckThenDataWhenIdle ==
    GotBoth =>
        /\ Core(AckTick) = ev.mid =>
              LET r2 == DataTickAfter(Core(AckTick))
              IN  /\ Core(r2) = ev.post
                  /\ r2.put = ev.put
                  /\ r2.sent = ev.sent
                  /\ r2.refused = ev.refused
        /\ IsSome(ev.cleared) =>
              \A i \in 1..Len(Offered) : Offered[i].pd # ev.cleared

\* A tick that received BOTH whose ACK part cleared the outstanding DATA
\* and whose DATA part, with no bytes queued, was answered by a pure ACK.
C9_AckPartFirst ==
    /\ GotBoth
    /\ IsSome(ev.cleared)
    /\ Core(AckTick) = ev.mid
    /\ ev.put # << >>
    /\ ev.sent = <<Ack(Get(Get(ev.rx).pd).id)>>

(***************************************************************************)
(* C11.  The retransmit-due test never aborts, and it finds the DATA due   *)
(* exactly when the ticks elapsed since it was last sent, counted across   *)
(* any wrap of the tick counter, exceed the retry interval of now.         *)
(***************************************************************************)
C11_WrappingDueTest ==
    wdue.out # "none" =>
        /\ wdue.out # "panic"
        /\ wdue.out = "due" <=> wdue.aged > RetryInterval32(wdue.t)

(***************************************************************************)
(* C12.  An engine that gets no matching ACK returns to Idle after at most *)
(* RETRY_CAP retransmissions: while a DATA is outstanding it has been      *)
(* enqueued at most once as the original and RETRY_CAP times again.        *)
(***************************************************************************)
C12_IdleWithinRetryCap ==
    \A e \in Engines : Transmissions(e) <= 1 + RETRY_CAP

(***************************************************************************)
(* C13.  Two peers with aligned tick counters do not retransmit at the     *)
(* same ticks until the retry cap: when only collisions lose frames, the   *)
(* two engines never both give up without any frame having been            *)
(* transmitted in a tick in which the other was listening.                 *)
(***************************************************************************)
C13_JitterBreaksSymmetry ==
    ~ /\ given_up["A"] # {}
      /\ given_up["B"] # {}
      /\ heard = 0
      /\ dropped = 0

\* Lockstep: nothing is left to do and the clock has stopped.
Quiet == phase = "tick" /\ ~Busy

\* Lockstep: A's first transmission, a DATA with id 0, was lost to noise, no
\* other frame was, and B has no bytes of its own to send.
FirstDataLost ==
    /\ Len(aired) >= 1
    /\ aired[1].from = "A"
    /\ aired[1].fate = "lost"
    /\ aired[1].frame.kind = "Data"
    /\ dropped = 1
    /\ fed["B"] = 0

(***************************************************************************)
(* C14 as stated.  If A's first transmission of DATA(0) is lost and no     *)
(* other frame is, A retransmits the identical DATA at the tick            *)
(* since + RETRY_BASE + 1 and it reaches B.                                *)
(***************************************************************************)
C14_RetransmitAtSincePlus3 ==
    (FirstDataLost /\ Len(aired) >= 2) =>
        /\ aired[2].from = "A"
        /\ aired[2].frame = aired[1].frame
        /\ aired[2].fate = "heard"
        /\ aired[2].t = aired[1].t + RETRY_BASE + 1

(***************************************************************************)
(* C14.  If A's first transmission of DATA(0) is lost and no other frame   *)
(* is, A retransmits the identical DATA at the first tick t with           *)
(* t - since > RETRY_BASE + (t * 7) % 89, B replies ACK(0) in the next     *)
(* tick, no payload byte is put into B's uart_tx twice, and when A has     *)
(* originated no further DATA the system comes to rest with A Idle, the    *)
(* payload in B's uart_tx once and three frames transmitted.               *)
(***************************************************************************)
C14_SingleLossRecovery ==
    FirstDataLost =>
        /\ Len(aired) >= 2 =>
              /\ aired[2].from = "A"
              /\ aired[2].frame = aired[1].frame
              /\ aired[2].fate = "heard"
              /\ \A t \in (aired[1].t + 1)..aired[2].t :
                    t = aired[2].t <=>
                        t - aired[1].t > RETRY_BASE + ((t * JITTER_MUL) % JITTER_MOD)
        /\ Len(aired) >= 3 =>
              /\ aired[3].from = "B"
              /\ aired[3].frame = Ack(0)
              /\ aired[3].t = aired[2].t + 1
        /\ \A i, j \in 1..Len(delivered["B"]) :
              i # j => delivered["B"][i] # delivered["B"][j]
        /\ (Quiet /\ next_packet_id["A"] = 1) =>
              /\ Len(aired) = 3
              /\ waiting_for_ack["A"] = None
              /\ given_up["A"] = {}
              /\ delivered["B"] = Get(aired[1].frame.pd).data
              /\ uart_tx["B"] = Get(aired[1].frame.pd).data

\* The system at rest after the recovery, the retransmission having come
\* later than since + RETRY_BASE + 1.
C14_Recovered ==
    /\ FirstDataLost
    /\ Quiet
    /\ next_packet_id["A"] = 1
    /\ Len(aired) = 3
    /\ aired[2].t > aired[1].t + RETRY_BASE + 1
    /\ waiting_for_ack["A"] = None
    /\ delivered["B"] # << >>

\* The first MaxLockFeed bytes that A's UART receives.
FirstBytes == [i \in 1..MaxLockFeed |-> ByteOf("A", i)]

\* Lockstep: A's first frame was a DATA with the first bytes, no frame was
\* lost to noise and B has no bytes of its own to send.
CleanTransfer ==
    /\ Len(aired) >= 1
    /\ aired[1].frame = Data(PacketData(0, FirstBytes))
    /\ dropped = 0
    /\ fed["B"] = 0

(***************************************************************************)
(* C15.  Clean one-way transfer.  A fresh engine A that runs with the      *)
(* first bytes in uart_rx enqueues one DATA with id 0 and all those bytes; *)
(* on a loss-free channel that DATA is heard, B answers with ACK(0) in the *)
(* next tick and nothing else is ever transmitted; the system comes to     *)
(* rest with A Idle and exactly those bytes in B's uart_tx.                *)
(***************************************************************************)
C15_CleanOneWayTransfer ==
    /\ (/\ phase = "B"
        /\ ev.e = "A"
        /\ ev.pre.uart_rx = FirstBytes
        /\ ev.pre.next_packet_id = 0
        /\ ev.pre.waiting_for_ack = None
        /\ fed["B"] = 0) =>
            /\ ev.sent = <<Data(PacketData(0, FirstBytes))>>
            /\ waiting_for_ack["A"] = Some(WaitingForAck(PacketData(0, FirstBytes), 1, now))
    /\ CleanTransfer =>
          /\ aired[1].from = "A"
          /\ aired[1].fate = "heard"
          /\ Len(aired) <= 2
          /\ Len(aired) = 2 =>
                /\ aired[2].from = "B"
                /\ aired[2].frame = Ack(0)
                /\ aired[2].fate = "heard"
                /\ aired[2].t = aired[1].t + 1
          /\ Quiet =>
                /\ Len(aired) = 2
                /\ waiting_for_ack["A"] = None
                /\ waiting_for_ack["B"] = None
                /\ uart_tx["B"] = FirstBytes
                /\ delivered["B"] = FirstBytes
                /\ given_up["A"] = {}

\* The system at rest after the clean transfer.
C15_Transferred ==
    /\ CleanTransfer
    /\ Quiet
    /\ Len(aired) = 2
    /\ uart_tx["B"] = FirstBytes
    /\ waiting_for_ack["A"] = None

\* The DATA that a tick received, alone or in a BOTH.
ReceivedData == Get(Get(ev.rx).pd)

\* The DATA that an Idle engine originates from the bytes q with the id n.
Originated(n, q) == PacketData(n, SubSeq(q, 1, Min(Len(q), MAX_PAYLOAD_SIZE)))

C17_IdPerOriginatedData ==
    ev.e \in Engines =>
        \/ ev.post.next_packet_id = ev.pre.next_packet_id
        \/ /\ ev.post.next_packet_id = (ev.pre.next_packet_id + 1) % ID_MODULUS
           /\ ev.mid.waiting_for_ack = None
           /\ IsSome(ev.post.waiting_for_ack)
           /\ Get(ev.post.waiting_for_ack).packet_data.id = ev.pre.next_packet_id

(***************************************************************************)
(* C18.  Receive state.  After a tick that received a DATA, last_acked, if *)
(* it holds an id, holds the id of that DATA, the most recently decoded    *)
(* one; a tick that received a duplicate or no DATA keeps last_acked.      *)
(***************************************************************************)
C18_LastAckedIsLatest ==
    ev.e \in Engines =>
        IF ev.rx # None /\ IsSome(Get(ev.rx).pd)
        THEN /\ IsSome(ev.post.last_acked) =>
                    ev.post.last_acked = Some(ReceivedData.id)
             /\ ev.pre.last_acked = Some(ReceivedData.id) =>
                    ev.post.last_acked = ev.pre.last_acked
        ELSE ev.post.last_acked = ev.pre.last_acked

(***************************************************************************)
(* C19.  flow_control.  The length is the number of data bytes the queue   *)
(* holds (self.queue.len()).  A call on a queue with more than 512 data    *)
(* bytes and XOFF not requested sets the flag and puts XOFF (0x13) into    *)
(* the target's control slot; a call on a queue with fewer than 256 data   *)
(* bytes and XOFF requested clears the flag and puts XON (0x11) there; any *)
(* other call, also at exactly 512 or 256 bytes, changes neither queue.    *)
(* No call changes the data bytes of either queue, the flag of the target  *)
(* or the control slot of the caller.                                      *)
(***************************************************************************)
C19_FlowControlThresholds ==
    qop.op = "flow_control" =>
        LET self == qop.self
            target == Other(qop.self)
        IN  /\ Len(queue[self]) = qop.len
            /\ control[self] = qop.control[self]
            /\ IF qop.len > 512 /\ ~qop.xoff_on
               THEN xoff_on[self] /\ control[target] = Some(19)
               ELSE IF qop.len < 256 /\ qop.xoff_on
               THEN ~xoff_on[self] /\ control[target] = Some(17)
               ELSE xoff_on[self] = qop.xoff_on /\ control[target] = qop.control[target]

\* A flow_control call at exactly 512 bytes that did nothing, on a queue that
\* also holds a control byte of its own.
C19_NothingAtHigh ==
    /\ qop.op = "flow_control"
    /\ qop.self = "a"
    /\ qop.len = 512
    /\ IsSome(control["a"])
    /\ ~xoff_on["a"]
    /\ control["b"] = None

(***************************************************************************)
(* C20.  Control bytes are never lost: the control bytes put into a        *)
(* queue's control slot are, in order, the ones its dequeue has returned   *)
(* followed by the one still in the slot.                                  *)
(***************************************************************************)
C20_ControlByteNeverLost ==
    \A q \in Queues :
        injected[q] =
            returned[q] \o (IF IsSome(control[q]) THEN <<Get(control[q])>> ELSE << >>)

(***************************************************************************)
(* C21.  A byte that arrives from the UART while the receive queue is full *)
(* does not abort the adapter.                                             *)
(***************************************************************************)
C21_FullQueueDropsByte == ~uart.aborted

(***************************************************************************)
(* C26.  At most one byte in transmission: no byte is written to the TX    *)
(* register before the byte written before it has been sent.               *)
(***************************************************************************)
C26_OneByteInTransmission == ~uart.overrun

(***************************************************************************)
(* C22.  Codec round trip: Packet::write of a frame with 0 to              *)
(* MAX_PAYLOAD_SIZE payload bytes does not panic, and Packet::read of what *)
(* it wrote returns the frame.                                             *)
(***************************************************************************)
C22_RoundTrip ==
    /\ codec.op = "write" => codec.buffer.ok
    /\ codec.op = "reread" => codec.result = Decoded(codec.frame)

\* The received buffer is malformed: unknown tag, length field out of range
\* or too short for the header of its kind.
IsMalformed(source) ==
    \/ source[S0 + 1] \notin {TAG_ACK, TAG_DATA, TAG_BOTH}
    \/ source[LEN + 1] < MIN_PAYLOAD_SIZE
    \/ source[LEN + 1] > MAX_PAYLOAD_SIZE
    \/ source[S0 + 1] = TAG_BOTH /\ source[LEN + 1] < 2

(***************************************************************************)
(* C23.  Packet::read of a malformed buffer returns None: it does not      *)
(* panic on an underflow or an out-of-range slice.                         *)
(***************************************************************************)
C23_MalformedRejected ==
    (codec.op = "read" /\ IsMalformed(codec.buffer.bytes)) =>
        codec.result = Malformed

\* The values of enum Pend, and the set over {Radio, Uart} each stands for.
Pends == {"Nothing", "Radio", "Uart", "Both"}
Named(hint) ==
    (IF hint \in {"Radio", "Both"} THEN {"Radio"} ELSE {})
    \cup (IF hint \in {"Uart", "Both"} THEN {"Uart"} ELSE {})

(***************************************************************************)
(* C24.  The pending hint.  Pend::plus is set union over {Radio, Uart}     *)
(* with Nothing as the empty set; the hint of a tick that enqueued a frame *)
(* into radio_tx includes Radio, the hint of a tick that enqueued bytes    *)
(* into uart_tx includes Uart; radio_protocol_task pends RADIO exactly     *)
(* when the hint includes Radio and UART0 exactly when it includes Uart.   *)
(***************************************************************************)
C24_PendHintIsUnion ==
    /\ \A a, b \in Pends :
          /\ PendPlus(a, b) \in Pends
          /\ Named(PendPlus(a, b)) = Named(a) \cup Named(b)
    /\ ev.e \in Engines =>
          /\ ev.pend \in Pends
          /\ ev.sent # << >> => "Radio" \in Named(ev.pend)
          /\ ev.put # << >> => "Uart" \in Named(ev.pend)
          /\ "RADIO" \in ev.pended <=> "Radio" \in Named(ev.pend)
          /\ "UART0" \in ev.pended <=> "Uart" \in Named(ev.pend)
          /\ ev.pended \subseteq {"RADIO", "UART0"}

\* A tick whose receive half put bytes into uart_tx and whose reply was
\* enqueued: the hint is Both and both interrupts are pended.
C24_BothPended ==
    /\ ev.e = "A"
    /\ ev.put # << >>
    /\ ev.sent # << >>
    /\ ev.pend = "Both"
    /\ ev.pended = {"UART0", "RADIO"}

(***************************************************************************)
(* C25.  A tick in which radio_tx refused a frame returns a hint that      *)
(* includes Radio.                                                         *)
(***************************************************************************)
C25_RefusedPendsRadio ==
    (ev.e \in Engines /\ ev.refused # << >>) => "Radio" \in Named(ev.pend)

(***************************************************************************)
(* C27.  Half-duplex discipline.  Only a tick that finds the adapter in    *)
(* RxIdle with no address event pending calls assemble_packet; a tick that *)
(* finds RxIdle with an address event pending moves to Rx, assembles       *)
(* nothing and leaves the protocol state, the queues and plaintext alone;  *)
(* a tick in Rx, RxDisable, Tx or TxDisable assembles nothing and leaves   *)
(* next_packet_id and tx_queue alone, and outside Rx the whole protocol    *)
(* state.                                                                  *)
(***************************************************************************)
C27_AssemblyOnlyWhenIdle ==
    radio.last.op = "tick" =>
        /\ (radio.last.called \/ radio.last.frame # None) =>
               (radio.last.radio_state = "RxIdle" /\ ~radio.last.events_address)
        /\ (radio.last.radio_state = "RxIdle" /\ radio.last.events_address) =>
               /\ radio.radio_state = "Rx"
               /\ ~radio.last.called
               /\ RadioCore(radio) = radio.last.core
               /\ radio.plaintext = radio.last.plaintext
        /\ radio.last.radio_state \in {"RxDisable", "Tx", "TxDisable"} =>
               RadioCore(radio) = radio.last.core
        /\ radio.last.radio_state = "Rx" =>
               /\ radio.next_packet_id = radio.last.core.next_packet_id
               /\ radio.tx_queue = radio.last.core.tx_queue

\* A tick found RxIdle with an address event pending and bytes waiting in
\* tx_queue, and moved to Rx without touching them.
C27_AddressDefersAssembly ==
    /\ radio.last.op = "tick"
    /\ radio.last.radio_state = "RxIdle"
    /\ radio.last.events_address
    /\ radio.last.core.tx_queue # << >>
    /\ radio.radio_state = "Rx"

(***************************************************************************)
(* C28.  Every assembled frame is handed to the radio exactly once and the *)
(* adapter comes back to listening: the adapter never stops, the frames    *)
(* the radio has sent are the frames assembled, in order, with at most the *)
(* last one still on its way, and the adapter is in RxDisable, Tx or       *)
(* TxDisable exactly while the peripheral carries that frame through       *)
(* disable, transmission and disable, and in RxIdle or Rx only while the   *)
(* peripheral receives.                                                    *)
(***************************************************************************)
C28_AssembledFrameIsSent ==
    /\ ~radio.aborted
    /\ Len(radio.handed) <= Len(radio.assembled)
    /\ Len(radio.assembled) <= Len(radio.handed) + 1
    /\ \A i \in 1..Len(radio.handed) :
          PacketRead(radio.handed[i], TRUE) = Decoded(radio.assembled[i])
    /\ radio.radio_state = "RxDisable" =>
          /\ radio.hw \in {"disabling", "disabled"}
          /\ Len(radio.assembled) = Len(radio.handed) + 1
          /\ PacketRead(radio.plaintext, TRUE) =
                Decoded(radio.assembled[Len(radio.assembled)])
    /\ radio.radio_state = "Tx" =>
          /\ radio.hw \in {"tx", "sent"}
          /\ PacketRead(radio.plaintext, TRUE) =
                Decoded(radio.assembled[Len(radio.assembled)])
    /\ radio.radio_state = "TxDisable" =>
          /\ radio.hw \in {"disabling", "disabled"}
          /\ Len(radio.assembled) = Len(radio.handed)
    /\ radio.radio_state \in {"RxIdle", "Rx"} =>
          /\ radio.hw \in {"rx", "receiving", "stopped"}
          /\ Len(radio.assembled) = Len(radio.handed)

(***************************************************************************)
(* C29.  A tick in Rx that finds the end event with the CRC or the MIC     *)
(* check failed changes neither rx_state, tx_state, next_packet_id nor the *)
(* queues, and, as after a good frame, clears the end event, restarts      *)
(* reception and moves to RxIdle.                                          *)
(***************************************************************************)
C29_BadFrameDropped ==
    (radio.last.op = "tick" /\ radio.last.radio_state = "Rx"
       /\ radio.last.events_end) =>
        /\ ~(radio.last.crc_ok /\ radio.last.mic_ok) =>
               /\ RadioCore(radio) = radio.last.core
               /\ ~radio.aborted
        /\ ~radio.aborted =>
               /\ radio.radio_state = "RxIdle"
               /\ radio.hw = "rx"
               /\ ~radio.events_end

\* A DATA frame that a fresh receiver would have accepted arrived with a
\* good CRC and a bad MIC, and the tick went back to RxIdle.
C29_BadMicDropped ==
    /\ radio.last.op = "tick"
    /\ radio.last.radio_state = "Rx"
    /\ radio.last.events_end
    /\ radio.last.crc_ok
    /\ ~radio.last.mic_ok
    /\ PacketRead(radio.last.plaintext, TRUE).out = "some"
    /\ PacketRead(radio.last.plaintext, TRUE).frame.kind = "Data"
    /\ radio.last.core.rx_state.tag = "Initial"
    /\ radio.radio_state = "RxIdle"

(***************************************************************************)
(* C30.  Retransmission interval.  In a tick of engine A that hears no      *)
(* frame while a DATA is outstanding: the DATA is not sent again while      *)
(* now - since is 2 or less; it is sent again in the tick in which          *)
(* now - since > 2 + ((now * 7) mod 89) holds and the retry cap is not      *)
(* passed; and now - since never exceeds 91.                                *)
(***************************************************************************)
C30_RetransmitInterval ==
    (ev.e = "A" /\ ev.rx = None /\ IsSome(ev.pre.waiting_for_ack)) =>
        LET state == Get(ev.pre.waiting_for_ack)
            elapsed == ev.t - state.since
            resent == \E i \in 1..Len(ev.sent) :
                         /\ ev.sent[i].kind \in {"Data", "Both"}
                         /\ Get(ev.sent[i].pd) = state.packet_data
        IN  /\ elapsed <= 2 => ~resent
            /\ (elapsed > 2 + ((ev.t * 7) % 89) /\ state.tx_count <= 16) => resent
            /\ elapsed <= 91

(***************************************************************************)
(* C31.  The control bytes a queue injects into its one target alternate   *)
(* XOFF, XON, XOFF, ... starting with XOFF; the queue's xoff_on is true    *)
(* exactly when the last byte it injected is XOFF; and a control byte      *)
(* waiting in the target's slot is XOFF exactly when the queue's xoff_on   *)
(* is true.                                                                *)
(***************************************************************************)
C31_ControlBytesAlternate ==
    \A q \in Queues :
        LET target == Other(q)
            n == Len(injected[target])
        IN  /\ \A i \in 1..n :
                  injected[target][i] = IF i % 2 = 1 THEN XOFF ELSE XON
            /\ xoff_on[q] <=> n % 2 = 1
            /\ IsSome(control[target]) =>
                  (Get(control[target]) = XOFF <=> xoff_on[q])

\* Queue "a" has requested XOFF and then XON, its flag is clear again and
\* the XON waits in the slot of "b".
C31_XonAfterXoffPending ==
    /\ injected["b"] = <<XOFF, XON>>
    /\ control["b"] = Some(XON)
    /\ ~xoff_on["a"]

(***************************************************************************)
(* C32.  Quiescence.  A tick that receives a pure ACK sends no ACK, and    *)
(* what it sends is what the transmit half sends from the state the ACK    *)
(* left; and the two engines reach a state, and stay in it, in which       *)
(* neither has an outstanding DATA and every queue of frames and every     *)
(* uart_rx is empty, so that no frame is emitted any more.                 *)
(***************************************************************************)
AckNotAnswered ==
    (ev.e \in Engines /\ ev.rx # None /\ Get(ev.rx).kind = "Ack") =>
        LET idle == RunResult(Resume(ev.mid), ev.t, None)
        IN  /\ ev.sent = idle.sent
            /\ ev.refused = idle.refused
            /\ \A i \in 1..Len(ev.sent) : ev.sent[i].kind # "Ack"
            /\ \A i \in 1..Len(ev.refused) : ev.refused[i].kind # "Ack"

Quiescent ==
    \A e \in Engines :
        /\ waiting_for_ack[e] = None
        /\ uart_rx[e] = << >>
        /\ radio_rx[e] = << >>
        /\ radio_tx[e] = << >>

C32_Quiescence == [](AckNotAnswered) /\ <>[]Quiescent

\* Both engines had bytes to send, a frame was lost to noise, an ACK was
\* heard, and nothing is left to do.
C32_QuietAfterExchange ==
    /\ phase = "tick"
    /\ ~Busy
    /\ Quiescent
    /\ fed["A"] > 0
    /\ fed["B"] > 0
    /\ dropped > 0
    /\ \E i \in 1..Len(aired) :
          aired[i].frame.kind = "Ack" /\ aired[i].fate = "heard"

====
